---- MODULE Spec2Model ----
(***************************************************************************)
(* Model of the DNSE trading adapter's core:                               *)
(*   - rest/auth.py      DNSEAuthProvider (two-layer token lifecycle)      *)
(*   - rest/client.py    DNSEHttpClient._request (auth injection, retry)   *)
(*   - websocket/client.py  DNSEWebSocketClient (subscriptions, parsing)   *)
(*   - data/client.py    DNSEDataClient (quote / trade subscriptions)      *)
(*   - examples/price_channel_bot.py  RollingPriceChannel                  *)
(*   - examples/portfolio_take_profit.py  PortfolioTakeProfitBot           *)
(*                                                                         *)
(* The specifications of the module:                                       *)
(*   SpecAuth  the token lifecycle: coroutines on one event loop.  A step  *)
(*             is the code that runs between two awaits of a coroutine.    *)
(*   SpecRequest  one task issuing requests through _request.              *)
(*   SpecExecute  the same without the clock, every request, login and     *)
(*             exchange being answered in the end.                         *)
(*   SpecClock  the refresh loop after a connect, time passing as it       *)
(*             sleeps.                                                     *)
(*   SpecSession  one task connecting and disconnecting beside the         *)
(*             background refresh loop.                                    *)
(*   SpecWs    the streaming manager: one step per method or transport     *)
(*             callback.                                                   *)
(*   SpecTick  the trade-info normalizer applied to bounded payloads.      *)
(*   SpecBook  the message handler applied to top-of-book payloads.        *)
(*   SpecCred  the credential's properties over bounded token stores.      *)
(*   SpecRace  subscribe(symbol) on the application thread beside the      *)
(*             connect acknowledgement on the transport's thread.          *)
(*   SpecData  the data client driving the streaming manager.              *)
(*   SpecChannel  the rolling price channel over bounded observations.     *)
(*   SpecBot   the take-profit bot: ticks and simulated executions.        *)
(***************************************************************************)
EXTENDS Integers, Sequences, FiniteSets, TLC

(***************************************************************************)
(* Program constants (common/constants.py) and model bounds.               *)
(***************************************************************************)
TOKEN_EXPIRY_SECONDS == 28800
TOKEN_REFRESH_BUFFER_SECONDS == 1800
MAX_RETRIES == 3
RETRY_DELAY_SECONDS == 1
HTTP_TIMEOUT == 30

\* At most MaxLogins login requests and MaxOtps one-time-code exchanges are
\* sent in a behaviour, and the clock advances at most MaxTicks times.
MaxLogins == 4
MaxOtps == 1
MaxTicks == 1

\* The amounts by which the clock advances: they take a fresh token exactly
\* to the refresh buffer, one refresh-loop nap into it, and exactly to expiry.
Deltas == {TOKEN_EXPIRY_SECONDS - TOKEN_REFRESH_BUFFER_SECONDS,
           TOKEN_EXPIRY_SECONDS - TOKEN_REFRESH_BUFFER_SECONDS + 60,
           TOKEN_EXPIRY_SECONDS}

\* The coroutines that run concurrently on the event loop: "app" may call any
\* operation of the HTTP client; "aux" is a second task that only makes sure
\* the session is authenticated (ensure_authenticated) while "app" is at work.
Callers == {"app", "aux"}
App == {"app"}

\* None for a token string and for a datetime.
\* DNSEHttpClient builds its DNSEAuthProvider without auto_refresh
\* (rest/client.py 71-76), so the parameter keeps its default.
auto_refresh == TRUE

NoToken == 0
NoTime == -1

VARIABLES
    \* ---- request domain (rest/auth.py, rest/client.py)
    otp_callback,   \* DNSEAuthProvider._otp_callback is not None
    httpSession,    \* DNSEHttpClient._session is not None
    authSession,    \* DNSEAuthProvider._session is not None
    tokens,         \* DNSEAuthProvider._tokens: <<>> (None) or <<DNSETokens>>
    now,            \* datetime.now(), in seconds
    ticks,          \* number of clock advances so far
    loginsSent,     \* login POSTs sent so far; the n-th login yields token n
    otpsSent,       \* one-time-code POSTs sent so far
    refresh,        \* refresh_loop: "off" (no task), "start", "login",
                    \* "sleep60", "sleep30"; "cancel_" and the await it
                    \* was at once cancel() was called; "ended"
    refreshTok,     \* the token the refresh loop's login in flight will yield
    refreshErrors,  \* errors the refresh loop has caught and logged so far
    call,           \* per caller: the coroutine's position and locals
    \* ---- streaming domain (websocket/client.py)
    client,         \* DNSEWebSocketClient._client is not None
    is_connected,   \* DNSEWebSocketClient._is_connected
    subscribed_symbols, \* DNSEWebSocketClient._subscribed_symbols
    loopQueue,      \* on_tick calls handed to the event loop, not yet run
    delivered,      \* number of on_tick invocations so far
    msgs,           \* number of transport messages received so far
    \* history of the streaming domain
    lastOp,         \* the method or transport callback that ran last
    calls,          \* the transport subscribe/unsubscribe calls it issued
    handed,         \* the ticks it handed to the event loop
    raised,         \* whether an exception escaped it
    notified,       \* the connection callback it handed to the event loop
    sentOnConn,     \* topics subscribed on the transport's current connection
    queued,         \* symbols subscribed while not connected and neither
                    \* unsubscribed nor cleared by disconnect() since
    drops,          \* whether the transport has lost its connection since
                    \* connect()
    garbled,        \* topics on which a payload that is no JSON has arrived
    \* ---- normalizer under test
    payload,        \* the message handed to the message handler
    normalized,     \* whether the handler has run on it
    tick,           \* the ticks the handler handed on for it
    onFeed,         \* the feed of the topic the message arrives on
    \* ---- credential functions under test
    cred,           \* a token store: <<>> or <<DNSETokens>>
    at,             \* datetime.now() when the functions are evaluated
    verdict,        \* what the properties and get_auth_headers returned
    \* ---- the two threads of the streaming manager
    app,            \* the application thread inside subscribe(symbol)
    ack,            \* the transport thread inside _on_mqtt_connect
    \* ---- data client (data/client.py)
    ws_client,      \* DNSEDataClient._ws_client is not None
    subscribed_quote_ticks, \* DNSEDataClient._subscribed_quote_ticks
    subscribed_trade_ticks, \* DNSEDataClient._subscribed_trade_ticks
    dataOp,         \* the data client's method that ran last
    \* ---- rolling price channel (examples/price_channel_bot.py)
    window_seconds, \* RollingPriceChannel.window_seconds
    prices,         \* RollingPriceChannel.prices: a deque of <<timestamp, price>>
    high,           \* RollingPriceChannel.high, Null for None
    low,            \* RollingPriceChannel.low, Null for None
    observed,       \* every observation handed to add_price so far, in order
    \* ---- portfolio take-profit bot (examples/portfolio_take_profit.py)
    quantity,       \* PortfolioTakeProfitBot.quantity
    initial_quantity, \* .initial_quantity, the snapshot taken by start()
    avg_cost,       \* .avg_cost, an exact fraction [n, d]
    last_bid,       \* .last_bid
    last_ask,       \* .last_ask
    last_trade_price, \* .last_trade_price, the scalping reference
    in_crisis_mode, \* .in_crisis_mode
    cooling,        \* time.time() - last_order_time < COOLDOWN_SECONDS
    tasks,          \* place_order tasks created and not yet run, in order
    created,        \* number of place_order tasks created so far
    botOp           \* the step of the bot that ran last

authVars == <<otp_callback, httpSession, authSession, tokens, now,
              ticks, loginsSent, otpsSent, refresh, refreshTok, refreshErrors,
              call>>
wsVars == <<client, is_connected, subscribed_symbols, loopQueue, delivered, msgs,
            lastOp, calls, handed, raised, notified, sentOnConn, queued, drops,
            garbled>>
tickVars == <<payload, normalized, tick, onFeed, cred, at, verdict>>
raceVars == <<app, ack>>
dataVars == <<ws_client, subscribed_quote_ticks, subscribed_trade_ticks, dataOp>>
chanVars == <<window_seconds, prices, high, low, observed>>
botVars == <<quantity, initial_quantity, avg_cost, last_bid, last_ask,
             last_trade_price, in_crisis_mode, cooling, tasks, created, botOp>>
appVars == <<raceVars, dataVars, chanVars, botVars>>
vars == <<authVars, wsVars, tickVars, appVars>>

(***************************************************************************)
(* common/types.py: DNSETokens                                             *)
(***************************************************************************)
DNSETokens(jwt, jwtExp, tt, ttExp) ==
    [jwt_token |-> jwt, jwt_expires_at |-> jwtExp,
     trading_token |-> tt, trading_token_expires_at |-> ttExp]

is_jwt_expired(t, clock) == clock >= t.jwt_expires_at

\* is_trading_token_expired, were it to look at the expiry alone.
is_trading_token_expired_ExpiryOnly(t, clock) ==
    IF t.trading_token_expires_at = NoTime
    THEN TRUE
    ELSE clock >= t.trading_token_expires_at

is_trading_token_expired(t, clock) ==
    IF t.trading_token = NoToken \/ t.trading_token_expires_at = NoTime
    THEN TRUE
    ELSE clock >= t.trading_token_expires_at

(***************************************************************************)
(* rest/auth.py: properties of DNSEAuthProvider, over a token store `toks` *)
(***************************************************************************)
is_authenticated(toks, clock) ==
    IF toks = <<>> THEN FALSE ELSE ~is_jwt_expired(toks[1], clock)

has_trading_token(toks, clock) ==
    IF toks = <<>> THEN FALSE ELSE ~is_trading_token_expired(toks[1], clock)

jwt_token(toks) == IF toks = <<>> THEN NoToken ELSE toks[1].jwt_token

trading_token(toks) == IF toks = <<>> THEN NoToken ELSE toks[1].trading_token

\* get_auth_headers, were it to ignore include_trading_token.
get_auth_headers_AlwaysTrading(toks, include_trading_token) ==
    [content_type |-> "application/json",
     authorization |-> jwt_token(toks),
     trading |-> trading_token(toks)]

\* get_auth_headers: Content-Type always; Authorization when a JWT is held;
\* Trading-Token when asked for and held.  NoToken stands for an absent header.
get_auth_headers(toks, include_trading_token) ==
    [content_type |-> "application/json",
     authorization |-> jwt_token(toks),
     trading |-> IF include_trading_token /\ trading_token(toks) # NoToken
                 THEN trading_token(toks) ELSE NoToken]

\* _login, lines 168-173: the credential a successful login stores.
LoginTokens(toks, jwt, clock) ==
    <<DNSETokens(jwt, clock + TOKEN_EXPIRY_SECONDS, NoToken, NoTime)>>

\* get_trading_token, lines 228-236: the credential a successful exchange stores.
TradingTokens(toks, tt, clock) ==
    <<DNSETokens(toks[1].jwt_token, toks[1].jwt_expires_at,
                 tt, clock + TOKEN_EXPIRY_SECONDS)>>

(***************************************************************************)
(* A caller's coroutine.  pc is the await it is suspended at:              *)
(*   "idle"     not inside the client                                      *)
(*   "login"    in _login, awaiting the login POST's response              *)
(*   "otp"      in get_trading_token, awaiting the exchange's response     *)
(*   "http"     in _request, awaiting the response of attempt `attempt`    *)
(*   "backoff"  in _request, in asyncio.sleep before the next attempt      *)
(*   "done"     returned (result) or raised (result names the error)       *)
(* sent, resp, relogins, relogged and sleeps record what the call did: the  *)
(* headers of each request sent, each response seen, the token asked for   *)
(* by each login a 401 forced, how each such login ended, and each         *)
(* back-off delay.  could_trade is has_trading_token as the call began,    *)
(* otp_given whether get_trading_token was handed a code, bearer the token *)
(* the one-time-code exchange went out with, posted how the last login or  *)
(* exchange of the call was answered, and event the order event that       *)
(* _submit_order generated.                                                *)
(***************************************************************************)
NoHeaders == get_auth_headers(<<>>, FALSE)

IdleCall ==
    [op |-> "none", pc |-> "idle", phase |-> "none", need_tt |-> FALSE,
     attempt |-> 0, headers |-> NoHeaders, last_error |-> "None",
     result |-> "none", loginTok |-> NoToken, otpTok |-> NoToken,
     sent |-> <<>>, resp |-> <<>>, relogins |-> <<>>, relogged |-> <<>>,
     sleeps |-> <<>>, could_trade |-> FALSE, otp_given |-> FALSE,
     bearer |-> NoToken, posted |-> "none", event |-> "none"]

\* The call raises.  Inside _submit_order the exception is caught and an
\* order-rejected event generated (execution/client.py 226-231).
Raise(rec, err) ==
    [rec EXCEPT !.pc = "done", !.result = err,
                !.event = IF rec.op = "submit" THEN "order_rejected" ELSE @]

\* The call returns.  _submit_order then generates the order-accepted event
\* (execution/client.py 201-206).
Return(rec, value) ==
    [rec EXCEPT !.pc = "done", !.result = value,
                !.event = IF rec.op = "submit" THEN "order_accepted" ELSE @]

\* _login up to its await (lines 142-156): raises without a session, else
\* sends the POST.  The n-th login sent is answered with token n.
LoginStart(rec, phase) ==
    IF ~authSession
    THEN Raise(rec, "SessionNotInitialized")
    ELSE [rec EXCEPT !.pc = "login", !.phase = phase,
                     !.loginTok = loginsSent + 1]

\* get_trading_token without its first check (lines 198-199).
GetTradingTokenStart_NoAuthCheck(rec, toks, clock, otpGiven) ==
    IF ~otpGiven /\ ~otp_callback
    THEN Raise(rec, "NoOtp")
    ELSE [rec EXCEPT !.pc = "otp", !.otpTok = otpsSent + 1,
                     !.bearer = jwt_token(toks)]

\* get_trading_token without its second check (lines 202-204).
GetTradingTokenStart_NoOtpCheck(rec, toks, clock, otpGiven) ==
    IF ~authSession \/ ~is_authenticated(toks, clock)
    THEN Raise(rec, "NotAuthenticated")
    ELSE [rec EXCEPT !.pc = "otp", !.otpTok = otpsSent + 1,
                     !.bearer = jwt_token(toks)]

\* get_trading_token up to its await (lines 198-216).
GetTradingTokenStart(rec, toks, clock, otpGiven) ==
    IF ~authSession \/ ~is_authenticated(toks, clock)
    THEN Raise(rec, "NotAuthenticated")
    ELSE IF ~otpGiven /\ ~otp_callback
    THEN Raise(rec, "NoOtp")
    ELSE [rec EXCEPT !.pc = "otp", !.otpTok = otpsSent + 1,
                     !.bearer = jwt_token(toks)]

\* _request, lines 177-183: one attempt's request goes out with `hdrs`.
SendRequest(rec, hdrs) ==
    [rec EXCEPT !.pc = "http", !.headers = hdrs, !.sent = Append(@, hdrs)]

\* _request, were it to call ensure_authenticated whatever
\* require_trading_token is.
EnsureTail_NoTradingCheck(rec, toks, clock) ==
    SendRequest(rec, get_auth_headers(toks, rec.need_tt))

\* ensure_trading_token, were it to exchange a code on every call.
EnsureTail_AlwaysExchange(rec, toks, clock) ==
    IF rec.need_tt
    THEN GetTradingTokenStart(rec, toks, clock, FALSE)
    ELSE SendRequest(rec, get_auth_headers(toks, rec.need_tt))

\* _request, lines 163-173 once ensure_authenticated has returned: the
\* rest of ensure_trading_token, then the headers and the first attempt.
EnsureTail(rec, toks, clock) ==
    IF rec.need_tt /\ ~has_trading_token(toks, clock)
    THEN GetTradingTokenStart(rec, toks, clock, FALSE)
    ELSE SendRequest(rec, get_auth_headers(toks, rec.need_tt))

\* _request, were it to send an order placement once only.
NextAttempt_OrderOnce(rec, hdrs) ==
    IF rec.attempt + 1 < MAX_RETRIES /\ rec.op # "submit"
    THEN SendRequest([rec EXCEPT !.attempt = @ + 1], hdrs)
    ELSE Raise(rec, "RequestFailed")

\* _request, were a 401 not to use up an attempt.
NextAttempt_Free401(rec, hdrs) ==
    IF rec.phase = "relogin" /\ rec.pc = "login"
    THEN SendRequest(rec, hdrs)
    ELSE IF rec.attempt + 1 < MAX_RETRIES
    THEN SendRequest([rec EXCEPT !.attempt = @ + 1], hdrs)
    ELSE Raise(rec, "RequestFailed")

\* _request, were the loop to run range(MAX_RETRIES + 1).
NextAttempt_OneMore(rec, hdrs) ==
    IF rec.attempt + 1 < MAX_RETRIES + 1
    THEN SendRequest([rec EXCEPT !.attempt = @ + 1], hdrs)
    ELSE Raise(rec, "RequestFailed")

\* _request, the for loop's step (line 173): the next attempt, or line 212
\* when range(MAX_RETRIES) is exhausted.
NextAttempt(rec, hdrs) ==
    IF rec.attempt + 1 < MAX_RETRIES
    THEN SendRequest([rec EXCEPT !.attempt = @ + 1], hdrs)
    ELSE Raise(rec, "RequestFailed")

\* _request, were it to sleep after the last attempt as well.
Failed_SleepAfterLast(rec, err) ==
    LET r == [rec EXCEPT !.last_error = err] IN
    IF r.attempt < MAX_RETRIES
    THEN [r EXCEPT !.pc = "backoff",
                   !.sleeps = Append(@, RETRY_DELAY_SECONDS * 2 ^ r.attempt)]
    ELSE Raise(r, "RequestFailed")

\* _request, lines 200-210: a non-200, non-401 status or a ClientError is
\* recorded; then the back-off sleep if attempts remain.
Failed(rec, err) ==
    LET r == [rec EXCEPT !.last_error = err] IN
    IF r.attempt < MAX_RETRIES - 1
    THEN [r EXCEPT !.pc = "backoff",
                   !.sleeps = Append(@, RETRY_DELAY_SECONDS * 2 ^ r.attempt)]
    ELSE NextAttempt(r, r.headers)

\* _request, were a 401 handled as any other failed status.
On401_Backoff(rec) == Failed(rec, "HTTP 401")

\* _request, lines 191-194: a 401 forces a login.
On401(rec) ==
    LET r == LoginStart(rec, "relogin") IN
    IF r.pc = "login" THEN [r EXCEPT !.relogins = Append(@, r.loginTok)] ELSE r

\* _request, lines 186-202: what one response does to the call.
OnResponse(rec, status) ==
    LET r == [rec EXCEPT !.resp = Append(@, status)] IN
    CASE status = "200"      -> Return(r, "json")
      [] status = "200empty" -> Return(r, "empty")
      [] status = "401"      -> On401(r)
      [] status = "500"      -> Failed(r, "HTTP 500")
      [] OTHER               -> Failed(r, "ClientError")

\* The same without line 196 of _request: the headers are not rebuilt.
AfterLogin_StaleHeaders(rec, outcome, toks, clock) ==
    LET r == IF rec.phase = "relogin"
             THEN [rec EXCEPT !.relogged = Append(@, outcome), !.posted = outcome]
             ELSE [rec EXCEPT !.posted = outcome]
    IN
    CASE outcome = "ok" ->
            CASE r.phase = "relogin" -> NextAttempt(r, r.headers)
              [] r.phase = "ensure" /\ r.op \in {"request", "submit"} ->
                    EnsureTail(r, toks, clock)
              [] OTHER -> Return(r, "ok")
      [] outcome = "rejected" -> Raise(r, "LoginFailed")
      [] OTHER ->
            IF r.phase = "relogin"
            THEN Failed(r, "ClientError")
            ELSE Raise(r, "ClientError")

\* What a caller does when its login POST is answered: _login returns or
\* raises into ensure_authenticated, connect, or line 194 of _request (where
\* only an aiohttp.ClientError is caught, line 204).
AfterLogin(rec, outcome, toks, clock) ==
    LET r == IF rec.phase = "relogin"
             THEN [rec EXCEPT !.relogged = Append(@, outcome), !.posted = outcome]
             ELSE [rec EXCEPT !.posted = outcome]
    IN
    CASE outcome = "ok" ->
            CASE r.phase = "relogin" ->
                    NextAttempt(r, get_auth_headers(toks, r.need_tt))
              [] r.phase = "ensure" /\ r.op \in {"request", "submit"} ->
                    EnsureTail(r, toks, clock)
              [] OTHER -> Return(r, "ok")
      [] outcome = "rejected" -> Raise(r, "LoginFailed")
      [] OTHER ->
            IF r.phase = "relogin"
            THEN Failed(r, "ClientError")
            ELSE Raise(r, "ClientError")

\* Bookkeeping of the POSTs a caller's step sent.
Posts(c) ==
    /\ (call'[c].pc = "login") => loginsSent < MaxLogins
    /\ (call'[c].pc = "otp") => otpsSent < MaxOtps
    /\ loginsSent' = IF call'[c].pc = "login" THEN loginsSent + 1 ELSE loginsSent
    /\ otpsSent' = IF call'[c].pc = "otp" THEN otpsSent + 1 ELSE otpsSent

(***************************************************************************)
(* Actions of the request domain.                                          *)
(***************************************************************************)
\* DNSEHttpClient.connect -> DNSEAuthProvider.connect, up to the login POST.
Connect(c) ==
    /\ call[c].pc = "idle"
    /\ loginsSent < MaxLogins
    /\ httpSession' = TRUE
    /\ authSession' = TRUE
    /\ call' = [call EXCEPT ![c] =
                   [IdleCall EXCEPT !.op = "connect", !.pc = "login",
                                    !.phase = "connect",
                                    !.loginTok = loginsSent + 1]]
    /\ loginsSent' = loginsSent + 1
    /\ UNCHANGED <<wsVars, tickVars, appVars>>
    /\ UNCHANGED <<otp_callback, tokens, now, ticks, otpsSent,
                   refresh, refreshTok,
                   refreshErrors>>

\* DNSEAuthProvider.ensure_authenticated.
EnsureAuthenticated(c) ==
    /\ call[c].pc = "idle"
    /\ call' = [call EXCEPT ![c] =
                   LET r == [IdleCall EXCEPT !.op = "ensure"] IN
                   IF is_authenticated(tokens, now)
                   THEN Return(r, "ok")
                   ELSE LoginStart(r, "ensure")]
    /\ Posts(c)
    /\ UNCHANGED <<wsVars, tickVars, appVars>>
    /\ UNCHANGED <<otp_callback, httpSession, authSession,
                   tokens, now, ticks, refresh, refreshTok,
                   refreshErrors>>

\* DNSEHttpClient.request_trading_token -> get_trading_token(otp).
GetTradingToken(c, otpGiven) ==
    /\ call[c].pc = "idle"
    /\ call' = [call EXCEPT ![c] =
                   GetTradingTokenStart([IdleCall EXCEPT !.op = "get_tt",
                                                         !.otp_given = otpGiven],
                                        tokens, now, otpGiven)]
    /\ Posts(c)
    /\ UNCHANGED <<wsVars, tickVars, appVars>>
    /\ UNCHANGED <<otp_callback, httpSession, authSession,
                   tokens, now, ticks, refresh, refreshTok,
                   refreshErrors>>

\* _request, lines 159-173, up to its first await.
RequestStart(r) ==
    IF ~httpSession
    THEN Raise(r, "NotConnected")
    ELSE IF ~is_authenticated(tokens, now)
    THEN LoginStart(r, "ensure")
    ELSE EnsureTail(r, tokens, now)

\* DNSEHttpClient._request up to its first await.
Request(c, require_trading_token) ==
    /\ call[c].pc = "idle"
    /\ call' = [call EXCEPT ![c] =
                   RequestStart([IdleCall EXCEPT
                                    !.op = "request",
                                    !.need_tt = require_trading_token,
                                    !.could_trade = has_trading_token(tokens, now)])]
    /\ Posts(c)
    /\ UNCHANGED <<wsVars, tickVars, appVars>>
    /\ UNCHANGED <<otp_callback, httpSession, authSession,
                   tokens, now, ticks, refresh, refreshTok,
                   refreshErrors>>

\* DNSEExecClient._submit_order up to its first await: without can_trade the
\* order is rejected on the spot (lines 163-170); else place_order or
\* place_derivative_order runs _request with require_trading_token=True.
SubmitOrder(c) ==
    /\ call[c].pc = "idle"
    /\ call' = [call EXCEPT ![c] =
                   LET r == [IdleCall EXCEPT
                                !.op = "submit", !.need_tt = TRUE,
                                !.could_trade = has_trading_token(tokens, now)] IN
                   IF ~has_trading_token(tokens, now)
                   THEN Raise(r, "NoTradingToken")
                   ELSE RequestStart(r)]
    /\ Posts(c)
    /\ UNCHANGED <<wsVars, tickVars, appVars>>
    /\ UNCHANGED <<otp_callback, httpSession, authSession,
                   tokens, now, ticks, refresh, refreshTok,
                   refreshErrors>>

\* _login, were it to store a credential before looking at the response.
LoginResponse_StoreFirst(c, outcome) ==
    /\ call[c].pc = "login"
    /\ tokens' = IF outcome # "neterr"
                 THEN LoginTokens(tokens, call[c].loginTok, now)
                 ELSE tokens
    /\ call' = [call EXCEPT ![c] = AfterLogin(call[c], outcome, tokens', now)]
    /\ Posts(c)
    /\ refresh' = IF /\ outcome = "ok" /\ call[c].op = "connect"
                     /\ auto_refresh /\ refresh = "off"
                  THEN "start" ELSE refresh
    /\ UNCHANGED <<wsVars, tickVars, appVars>>
    /\ UNCHANGED <<otp_callback, httpSession, authSession,
                   now, ticks, refreshTok,
                   refreshErrors>>

\* The login POST of caller c is answered; _login stores the credential on
\* success (lines 157-177) and the caller runs on to its next await.
LoginResponse(c, outcome) ==
    /\ call[c].pc = "login"
    /\ tokens' = IF outcome = "ok"
                 THEN LoginTokens(tokens, call[c].loginTok, now)
                 ELSE tokens
    /\ call' = [call EXCEPT ![c] = AfterLogin(call[c], outcome, tokens', now)]
    /\ Posts(c)
    /\ refresh' = IF /\ outcome = "ok" /\ call[c].op = "connect"
                     /\ auto_refresh /\ refresh = "off"
                  THEN "start" ELSE refresh
    /\ UNCHANGED <<wsVars, tickVars, appVars>>
    /\ UNCHANGED <<otp_callback, httpSession, authSession,
                   now, ticks, refreshTok,
                   refreshErrors>>

\* The one-time-code POST of caller c is answered (lines 217-239).
OtpResponse(c, outcome) ==
    /\ call[c].pc = "otp"
    /\ tokens' = IF outcome = "ok" /\ tokens # <<>>
                 THEN TradingTokens(tokens, call[c].otpTok, now)
                 ELSE tokens
    /\ call' = [call EXCEPT ![c] =
                   LET r == [call[c] EXCEPT !.posted = outcome] IN
                   CASE outcome = "ok" /\ tokens = <<>> ->
                            Raise(r, "AttributeError")
                     [] outcome = "ok" /\ r.op \in {"request", "submit"} ->
                            SendRequest(r, get_auth_headers(tokens', TRUE))
                     [] outcome = "ok" -> Return(r, "ok")
                     [] outcome = "rejected" -> Raise(r, "OtpFailed")
                     [] OTHER -> Raise(r, "ClientError")]
    /\ UNCHANGED <<wsVars, tickVars, appVars>>
    /\ UNCHANGED <<otp_callback, httpSession, authSession,
                   now, ticks, loginsSent, otpsSent, refresh, refreshTok,
                   refreshErrors>>

\* The response of the attempt in flight arrives.
HttpResponse(c, status) ==
    /\ call[c].pc = "http"
    /\ call' = [call EXCEPT ![c] = OnResponse(call[c], status)]
    /\ Posts(c)
    /\ UNCHANGED <<wsVars, tickVars, appVars>>
    /\ UNCHANGED <<otp_callback, httpSession, authSession,
                   tokens, now, ticks, refresh, refreshTok,
                   refreshErrors>>

\* The back-off sleep ends: the next attempt goes out with the same headers.
BackoffDone(c) ==
    /\ call[c].pc = "backoff"
    /\ call' = [call EXCEPT ![c] = NextAttempt(call[c], call[c].headers)]
    /\ UNCHANGED <<wsVars, tickVars, appVars>>
    /\ UNCHANGED <<otp_callback, httpSession, authSession,
                   tokens, now, ticks, loginsSent, otpsSent, refresh, refreshTok,
                   refreshErrors>>

\* The caller takes the result; its coroutine is free for another call.
Finish(c) ==
    /\ call[c].pc = "done"
    /\ call' = [call EXCEPT ![c] = IdleCall]
    /\ UNCHANGED <<wsVars, tickVars, appVars>>
    /\ UNCHANGED <<otp_callback, httpSession, authSession,
                   tokens, now, ticks, loginsSent, otpsSent, refresh, refreshTok,
                   refreshErrors>>

\* refresh_loop, were the comparison with the buffer not strict.
RefreshWake_Inclusive ==
    /\ refresh \in {"start", "sleep60", "sleep30"}
    /\ IF /\ tokens # <<>>
          /\ tokens[1].jwt_expires_at - now <= TOKEN_REFRESH_BUFFER_SECONDS
       THEN /\ authSession
            /\ loginsSent < MaxLogins
            /\ refresh' = "login"
            /\ refreshTok' = loginsSent + 1
            /\ loginsSent' = loginsSent + 1
       ELSE /\ refresh' = "sleep60"
            /\ UNCHANGED <<refreshTok, loginsSent>>
    /\ UNCHANGED <<wsVars, tickVars, appVars>>
    /\ UNCHANGED <<otp_callback, httpSession, authSession,
                   tokens, now, ticks, otpsSent, call, refreshErrors>>

\* refresh_loop, were it to log in only once the token has expired.
RefreshPass_AtExpiry(clock) ==
    /\ refresh \in {"start", "sleep60", "sleep30"}
    /\ IF tokens # <<>> /\ tokens[1].jwt_expires_at - clock < 0
       THEN /\ authSession
            /\ loginsSent < MaxLogins
            /\ refresh' = "login"
            /\ refreshTok' = loginsSent + 1
            /\ loginsSent' = loginsSent + 1
       ELSE /\ refresh' = "sleep60"
            /\ UNCHANGED <<refreshTok, loginsSent>>
    /\ UNCHANGED <<wsVars, tickVars, appVars>>
    /\ UNCHANGED <<otp_callback, httpSession, authSession,
                   tokens, ticks, otpsSent, call, refreshErrors>>

\* refresh_loop, lines 259-272: one pass from the top of the loop (after
\* create_task or after a sleep) to its next await, at time `clock`.
RefreshPass(clock) ==
    /\ refresh \in {"start", "sleep60", "sleep30"}
    /\ IF /\ tokens # <<>>
          /\ tokens[1].jwt_expires_at - clock < TOKEN_REFRESH_BUFFER_SECONDS
       THEN IF authSession
            THEN /\ loginsSent < MaxLogins
                 /\ refresh' = "login"
                 /\ refreshTok' = loginsSent + 1
                 /\ loginsSent' = loginsSent + 1
                 /\ UNCHANGED refreshErrors
            ELSE /\ refreshErrors < MaxLogins
                 /\ refresh' = "sleep30"
                 /\ refreshErrors' = refreshErrors + 1
                 /\ UNCHANGED <<refreshTok, loginsSent>>
       ELSE /\ refresh' = "sleep60"
            /\ UNCHANGED <<refreshTok, loginsSent, refreshErrors>>
    /\ UNCHANGED <<wsVars, tickVars, appVars>>
    /\ UNCHANGED <<otp_callback, httpSession, authSession,
                   tokens, ticks, otpsSent, call>>

\* The loop makes a pass at some moment, whatever time has gone by.
RefreshWake == RefreshPass(now) /\ UNCHANGED now

\* asyncio.sleep(60), asyncio.sleep(30) (lines 272, 278); a task just created
\* runs at once.
NapLength(at_await) ==
    CASE at_await = "sleep60" -> 60
      [] at_await = "sleep30" -> 30
      [] OTHER -> 0

\* The loop makes its pass when its sleep is over.
RefreshWakeOnTime ==
    /\ refresh \in {"start", "sleep60", "sleep30"}
    /\ now' = now + NapLength(refresh)
    /\ RefreshPass(now')

\* refresh_loop, were it not to catch the failure of its login.
RefreshLoginResponse_Fatal(outcome) ==
    /\ refresh = "login"
    /\ tokens' = IF outcome = "ok"
                 THEN LoginTokens(tokens, refreshTok, now)
                 ELSE tokens
    /\ refresh' = IF outcome = "ok" THEN "sleep60" ELSE "ended"
    /\ refreshErrors' = refreshErrors
    /\ UNCHANGED <<wsVars, tickVars, appVars>>
    /\ UNCHANGED <<otp_callback, httpSession, authSession,
                   now, ticks, loginsSent, otpsSent, refreshTok, call>>

\* The refresh loop's login is answered (lines 269-278).
RefreshLoginResponse(outcome) ==
    /\ refresh = "login"
    /\ tokens' = IF outcome = "ok"
                 THEN LoginTokens(tokens, refreshTok, now)
                 ELSE tokens
    /\ refresh' = IF outcome = "ok" THEN "sleep60" ELSE "sleep30"
    /\ refreshErrors' = IF outcome = "ok" THEN refreshErrors
                        ELSE refreshErrors + 1
    /\ UNCHANGED <<wsVars, tickVars, appVars>>
    /\ UNCHANGED <<otp_callback, httpSession, authSession,
                   now, ticks, loginsSent, otpsSent, refreshTok, call>>

\* Time passes.  Every POST and request is cut off after HTTP_TIMEOUT and the
\* back-off sleeps last RETRY_DELAY_SECONDS * 2^attempt, all far shorter than
\* any d in Deltas: the clock makes such a jump only while nothing is in flight.
Tick(d) ==
    /\ ticks < MaxTicks
    /\ d > HTTP_TIMEOUT
    /\ \A c \in Callers : call[c].pc \in {"idle", "done"}
    /\ refresh # "login"
    /\ now' = now + d
    /\ ticks' = ticks + 1
    /\ UNCHANGED <<wsVars, tickVars, appVars>>
    /\ UNCHANGED <<otp_callback, httpSession, authSession,
                   tokens, loginsSent, otpsSent, refresh, refreshTok, call,
                   refreshErrors>>

\* The awaits at which refresh_loop can be suspended.
RefreshAwaits == {"start", "login", "sleep60", "sleep30"}

Cancelled(at_await) ==
    CASE at_await = "start"   -> "cancel_start"
      [] at_await = "login"   -> "cancel_login"
      [] at_await = "sleep60" -> "cancel_sleep60"
      [] OTHER                -> "cancel_sleep30"

\* disconnect, were it not to cancel and await the refresh task.
DisconnectStart_NoCancel(c) ==
    /\ call[c].pc = "idle"
    /\ call' = [call EXCEPT ![c] =
                   [IdleCall EXCEPT !.op = "disconnect", !.pc = "closing"]]
    /\ UNCHANGED <<wsVars, tickVars, appVars>>
    /\ UNCHANGED <<otp_callback, httpSession, authSession, tokens, now, ticks,
                   loginsSent, otpsSent, refresh, refreshTok, refreshErrors>>

\* DNSEHttpClient.disconnect -> DNSEAuthProvider.disconnect up to its first
\* await (lines 113-122): with a refresh task, cancel() and await the task;
\* without one, straight on to closing the session.
DisconnectStart(c) ==
    /\ call[c].pc = "idle"
    /\ call' = [call EXCEPT ![c] =
                   [IdleCall EXCEPT !.op = "disconnect",
                                    !.pc = IF refresh # "off"
                                           THEN "await_refresh" ELSE "closing"]]
    /\ refresh' = IF refresh \in RefreshAwaits THEN Cancelled(refresh)
                  ELSE refresh
    /\ UNCHANGED <<wsVars, tickVars, appVars>>
    /\ UNCHANGED <<otp_callback, httpSession, authSession, tokens, now, ticks,
                   loginsSent, otpsSent, refreshTok, refreshErrors>>

\* refresh_loop, lines 274-278: CancelledError is thrown into the task at the
\* await it is suspended at.  In the try block it is caught and the loop
\* breaks; in the handler's sleep(30) it leaves the coroutine; a task not yet
\* started never runs.  A login in flight is abandoned.  The task ends.
RefreshCancelled ==
    /\ refresh \in {Cancelled(a) : a \in RefreshAwaits}
    /\ refresh' = "ended"
    /\ UNCHANGED <<wsVars, tickVars, appVars>>
    /\ UNCHANGED <<otp_callback, httpSession, authSession, tokens, now, ticks,
                   loginsSent, otpsSent, refreshTok, refreshErrors, call>>

\* disconnect, lines 116-122: the awaited task has ended; _refresh_task is
\* dropped and the session's close() awaited.
DisconnectJoined(c) ==
    /\ call[c].pc = "await_refresh"
    /\ refresh = "ended"
    /\ refresh' = "off"
    /\ call' = [call EXCEPT ![c].pc = "closing"]
    /\ UNCHANGED <<wsVars, tickVars, appVars>>
    /\ UNCHANGED <<otp_callback, httpSession, authSession, tokens, now, ticks,
                   loginsSent, otpsSent, refreshTok, refreshErrors>>

\* disconnect, were it to keep the credential.
DisconnectClosed_KeepTokens(c) ==
    /\ call[c].pc = "closing"
    /\ authSession' = FALSE
    /\ httpSession' = FALSE
    /\ call' = [call EXCEPT ![c] = Return(call[c], "ok")]
    /\ UNCHANGED <<wsVars, tickVars, appVars>>
    /\ UNCHANGED <<otp_callback, tokens, now, ticks, loginsSent, otpsSent,
                   refresh, refreshTok, refreshErrors>>

\* disconnect, lines 123-126: the session is closed and dropped and the
\* credential discarded; DNSEHttpClient.disconnect then closes its own
\* session (rest/client.py 108-110).
DisconnectClosed(c) ==
    /\ call[c].pc = "closing"
    /\ authSession' = FALSE
    /\ tokens' = <<>>
    /\ httpSession' = FALSE
    /\ call' = [call EXCEPT ![c] = Return(call[c], "ok")]
    /\ UNCHANGED <<wsVars, tickVars, appVars>>
    /\ UNCHANGED <<otp_callback, now, ticks, loginsSent, otpsSent,
                   refresh, refreshTok, refreshErrors>>

LoginOutcomes == {"ok", "rejected", "neterr"}
Statuses == {"200", "200empty", "401", "500", "neterr"}

\* The token lifecycle: connect, the two ensure-paths, the one-time-code
\* exchange, the background refresh loop and the clock.
NextAuth ==
    \/ \E c \in App : Connect(c)
    \/ \E c \in Callers : EnsureAuthenticated(c)
    \/ \E c \in App, otpGiven \in BOOLEAN : GetTradingToken(c, otpGiven)
    \/ \E c \in Callers, o \in LoginOutcomes : LoginResponse(c, o)
    \/ \E c \in App, o \in LoginOutcomes : OtpResponse(c, o)
    \/ \E c \in Callers : Finish(c)
    \/ RefreshWake
    \/ \E o \in LoginOutcomes : RefreshLoginResponse(o)
    \/ \E d \in Deltas : Tick(d)

\* The request path: one task connects and then executes requests.  Without
\* the refresh loop the clock matters only through the tokens' expiry: it
\* jumps to shortly before a token expires or by a token's whole lifetime.
NextRequest ==
    \/ \E c \in App : Connect(c)
    \/ \E c \in App, otpGiven \in BOOLEAN : GetTradingToken(c, otpGiven)
    \/ \E c \in App, need \in BOOLEAN : Request(c, need)
    \/ \E c \in App : SubmitOrder(c)
    \/ \E c \in App, o \in LoginOutcomes : LoginResponse(c, o)
    \/ \E c \in App, o \in LoginOutcomes : OtpResponse(c, o)
    \/ \E c \in App, s \in Statuses : HttpResponse(c, s)
    \/ \E c \in App : BackoffDone(c)
    \/ \E c \in App : Finish(c)
    \/ \E d \in {TOKEN_EXPIRY_SECONDS - TOKEN_REFRESH_BUFFER_SECONDS,
                 TOKEN_EXPIRY_SECONDS} : Tick(d)

\* The session's life: one task connects, exchanges a code, makes sure it is
\* authenticated and disconnects, while the refresh loop runs in the
\* background.
NextSession ==
    \/ \E c \in App : Connect(c)
    \/ \E c \in App : EnsureAuthenticated(c)
    \/ \E c \in App : GetTradingToken(c, TRUE)
    \/ \E c \in App, o \in LoginOutcomes : LoginResponse(c, o)
    \/ \E c \in App, o \in LoginOutcomes : OtpResponse(c, o)
    \/ \E c \in App : Finish(c)
    \/ RefreshWake
    \/ \E o \in LoginOutcomes : RefreshLoginResponse(o)
    \/ \E d \in Deltas : Tick(d)
    \/ \E c \in App : DisconnectStart(c)
    \/ RefreshCancelled
    \/ \E c \in App : DisconnectJoined(c)
    \/ \E c \in App : DisconnectClosed(c)

(***************************************************************************)
(* websocket/client.py: the normalizer.                                    *)
(*                                                                         *)
(* A JSON scalar is Null, an integer Num(n), or Str, a non-empty string    *)
(* that is not a number.  A JSON object is a function from its keys.       *)
(***************************************************************************)
Null == [t |-> "null", n |-> 0]
Num(n) == [t |-> "num", n |-> n]
Str == [t |-> "str", n |-> 0]

\* Python truth value: None and 0 are false, a non-empty string is true.
Truthy(v) == (v.t = "num" /\ v.n # 0) \/ v.t = "str"

\* Python `a or b`, were it to test for None only.
Or_FirstNonNull(a, b) == IF a.t # "null" THEN a ELSE b

\* Python `a or b`.
Or(a, b) == IF Truthy(a) THEN a ELSE b

\* dict.get(k) and dict.get(k, d).
Get(data, k) == IF k \in DOMAIN data THEN data[k] ELSE Null
GetDefault(data, k, d) == IF k \in DOMAIN data THEN data[k] ELSE d

\* Decimal(str(v)): raises (ok = FALSE) on "None" and on a non-numeric string.
ToDecimal(v) == [ok |-> v.t = "num", n |-> IF v.t = "num" THEN v.n ELSE 0]

\* int(v): raises on None and on a non-numeric string.
ToInt(v) == [ok |-> v.t = "num", n |-> IF v.t = "num" THEN v.n ELSE 0]

\* _parse_stock_info: exc when a conversion raises, else the tick.
parse_stock_info(symbol, data) ==
    LET last_price == ToDecimal(Or(Or(Get(data, "matchPrice"), Get(data, "lastPrice")), Num(0)))
        last_volume == ToInt(Or(Or(Get(data, "matchQuantity"), Get(data, "lastVolume")), Num(0)))
        total_volume == ToInt(Or(Get(data, "totalVolumeTraded"), Num(0)))
        total_value == ToDecimal(Or(Get(data, "grossTradeAmount"), Num(0)))
        open_price == ToDecimal(GetDefault(data, "openPrice", Num(0)))
        high_price == ToDecimal(Or(Or(Get(data, "highestPrice"), Get(data, "highPrice")), Num(0)))
        low_price == ToDecimal(Or(Or(Get(data, "lowestPrice"), Get(data, "lowPrice")), Num(0)))
        close_price == ToDecimal(Or(Or(Get(data, "referencePrice"), Get(data, "closePrice")), Num(0)))
    IN
    [exc |-> ~(/\ last_price.ok /\ last_volume.ok /\ total_volume.ok
               /\ total_value.ok /\ open_price.ok /\ high_price.ok
               /\ low_price.ok /\ close_price.ok),
     tick |-> [symbol |-> symbol,
               last_price |-> last_price.n, last_volume |-> last_volume.n,
               total_volume |-> total_volume.n, total_value |-> total_value.n,
               bid_price |-> 0, bid_volume |-> 0, ask_price |-> 0, ask_volume |-> 0,
               open_price |-> open_price.n, high_price |-> high_price.n,
               low_price |-> low_price.n, close_price |-> close_price.n,
               bids |-> <<>>, asks |-> <<>>]]

\* _parse_top_price, were the try to enclose the loop: a level that does not
\* convert ends the array.
RECURSIVE ParseLevels_StopAtBad(_)
ParseLevels_StopAtBad(raw) ==
    IF raw = <<>> THEN <<>>
    ELSE LET b == Head(raw)
             price == ToDecimal(GetDefault(b, "price", Num(0)))
             qty == ToInt(Or(Or(Get(b, "qtty"), Get(b, "quantity")), Num(0)))
         IN IF ~(price.ok /\ qty.ok) THEN <<>>
            ELSE (IF price.n > 0 /\ qty.n > 0
                  THEN <<[price |-> price.n, quantity |-> qty.n]>>
                  ELSE <<>>)
                 \o ParseLevels_StopAtBad(Tail(raw))

\* _parse_top_price, lines 298-305 and 310-317: the levels kept of an array.
\* A level whose price or quantity does not convert is skipped (except: pass).
RECURSIVE ParseLevels(_)
ParseLevels(raw) ==
    IF raw = <<>> THEN <<>>
    ELSE LET b == Head(raw)
             price == ToDecimal(GetDefault(b, "price", Num(0)))
             qty == ToInt(Or(Or(Get(b, "qtty"), Get(b, "quantity")), Num(0)))
         IN (IF price.ok /\ qty.ok /\ price.n > 0 /\ qty.n > 0
             THEN <<[price |-> price.n, quantity |-> qty.n]>>
             ELSE <<>>)
            \o ParseLevels(Tail(raw))

\* _parse_top_price, were it to fill the last-trade fields from the payload.
parse_top_price_Merged(symbol, msg) ==
    LET bids == ParseLevels(msg.bid)
        asks == ParseLevels(IF msg.offer # <<>> THEN msg.offer ELSE msg.ask)
        trade == parse_stock_info(symbol, msg.obj)
    IN
    [exc |-> trade.exc,
     tick |-> [trade.tick EXCEPT
                  !.bid_price = IF bids # <<>> THEN bids[1].price ELSE 0,
                  !.bid_volume = IF bids # <<>> THEN bids[1].quantity ELSE 0,
                  !.ask_price = IF asks # <<>> THEN asks[1].price ELSE 0,
                  !.ask_volume = IF asks # <<>> THEN asks[1].quantity ELSE 0,
                  !.bids = bids, !.asks = asks]]

\* _parse_top_price.  The tick is taken to carry the bids and asks lists, as
\* this function and the consumers under examples/ use it.  An absent, null
\* or empty array is <<>>.
parse_top_price(symbol, msg) ==
    LET bids == ParseLevels(msg.bid)
        asks == ParseLevels(IF msg.offer # <<>> THEN msg.offer ELSE msg.ask)
        best_bid == IF bids # <<>> THEN bids[1] ELSE [price |-> 0, quantity |-> 0]
        best_ask == IF asks # <<>> THEN asks[1] ELSE [price |-> 0, quantity |-> 0]
    IN
    [exc |-> FALSE,
     tick |-> [symbol |-> symbol,
               last_price |-> 0, last_volume |-> 0,
               total_volume |-> 0, total_value |-> 0,
               bid_price |-> best_bid.price, bid_volume |-> best_bid.quantity,
               ask_price |-> best_ask.price, ask_volume |-> best_ask.quantity,
               open_price |-> 0, high_price |-> 0,
               low_price |-> 0, close_price |-> 0,
               bids |-> bids, asks |-> asks]]

(***************************************************************************)
(* Topics and subscription records.  A string is a sequence of pieces: a   *)
(* symbol is one or more pieces, "/symbol/" and ":" are the separators the *)
(* code searches for.                                                      *)
(***************************************************************************)
\* MQTT_TOPIC_STOCK_INFO / MQTT_TOPIC_TOP_PRICE .format(symbol=symbol)
Topic(feed, symbol) ==
    <<"plaintext/quotes/krx/mdds/", feed, "/v1/roundlot", "/symbol/">> \o symbol

\* f"INFO:{symbol}" and f"TOP:{symbol}"
Item(type_, symbol) == <<type_, ":">> \o symbol

\* `piece in s`
Contains(s, piece) == \E i \in 1..Len(s) : s[i] = piece

\* s.split(sep)[-1]: what follows the last sep.
AfterLast(s, sep) ==
    LET i == CHOOSE k \in 1..Len(s) :
                 s[k] = sep /\ \A m \in (k + 1)..Len(s) : s[m] # sep
    IN SubSeq(s, i + 1, Len(s))

\* s.split(sep, 1): what precedes and what follows the first sep.
FirstSep(s, sep) ==
    CHOOSE k \in 1..Len(s) : s[k] = sep /\ \A m \in 1..(k - 1) : s[m] # sep

\* _on_mqtt_connect, were every record re-subscribed on the trade-info topic.
ItemTopic_AllInfo(item) ==
    IF Contains(item, ":")
    THEN Topic("stockinfo", SubSeq(item, FirstSep(item, ":") + 1, Len(item)))
    ELSE Topic("stockinfo", item)

\* _on_mqtt_connect, lines 206-217: the topic a record is re-subscribed on.
ItemTopic(item) ==
    IF Contains(item, ":")
    THEN LET k == FirstSep(item, ":")
             type_ == SubSeq(item, 1, k - 1)
             symbol == SubSeq(item, k + 1, Len(item))
         IN IF type_ = <<"INFO">> THEN Topic("stockinfo", symbol)
            ELSE IF type_ = <<"TOP">> THEN Topic("topprice", symbol)
            ELSE Topic("stockinfo", symbol)
    ELSE Topic("stockinfo", item)

\* _on_mqtt_message, lines 246-266: the body of the try block.  A message is
\* [json, obj, symbol, bid, offer, ask]: json is "invalid" (json.loads
\* raises), "array" (valid JSON, no object) or "object"; obj holds the
\* object's scalar fields, symbol its "symbol" field ("" when absent).
TryMessage(topic, msg) ==
    IF msg.json = "invalid" THEN [exc |-> TRUE, ticks |-> <<>>]
    ELSE IF Contains(topic, "stockinfo") \/ Contains(topic, "topprice")
    THEN IF msg.json # "object"
         THEN [exc |-> TRUE, ticks |-> <<>>]
         ELSE LET symbol == IF Contains(topic, "/symbol/")
                            THEN AfterLast(topic, "/symbol/")
                            ELSE msg.symbol
                  r == IF Contains(topic, "stockinfo")
                       THEN parse_stock_info(symbol, msg.obj)
                       ELSE parse_top_price(symbol, msg)
              IN [exc |-> r.exc, ticks |-> IF r.exc THEN <<>> ELSE <<r.tick>>]
    ELSE [exc |-> FALSE, ticks |-> <<>>]

\* _on_mqtt_message without its except clause.
MessageHandler_NoCatch(topic, msg) ==
    LET r == TryMessage(topic, msg) IN
    [raised |-> r.exc, ticks |-> r.ticks]

\* _on_mqtt_message: the try block under `except Exception` (lines 274-275),
\* and the ticks it hands to on_tick (lines 268-272).
MessageHandler(topic, msg) ==
    LET r == TryMessage(topic, msg) IN
    IF r.exc
    THEN [raised |-> FALSE, ticks |-> <<>>]
    ELSE [raised |-> FALSE, ticks |-> r.ticks]

(***************************************************************************)
(* The streaming manager.                                                  *)
(***************************************************************************)
MaxMsgs == 2

Symbols == {<<"ABC">>, <<"X", ":", "Y">>}
Feeds == {"stockinfo", "topprice"}
AllTopics == {Topic(f, sym) : f \in Feeds, sym \in Symbols}

\* The messages the transport delivers in SpecWs.
NoFields == [k \in {} |-> Null]
TradeMsg ==
    [json |-> "object",
     obj |-> [k \in {"matchPrice", "matchQuantity"} |->
                 IF k = "matchPrice" THEN Num(75000) ELSE Num(100)],
     symbol |-> <<"ABC">>, bid |-> <<>>, offer |-> <<>>, ask |-> <<>>]
TopMsg ==
    [json |-> "object", obj |-> NoFields, symbol |-> <<>>,
     bid |-> <<[k \in {"price", "qtty"} |->
                  IF k = "price" THEN Num(74900) ELSE Num(500)]>>,
     offer |-> <<[k \in {"price", "qtty"} |->
                    IF k = "price" THEN Num(0) ELSE Num(300)],
                 [k \in {"price", "qtty"} |->
                    IF k = "price" THEN Num(75100) ELSE Num(300)]>>,
     ask |-> <<>>]
InvalidMsg ==
    [json |-> "invalid", obj |-> NoFields, symbol |-> <<>>,
     bid |-> <<>>, offer |-> <<>>, ask |-> <<>>]
ArrayMsg == [InvalidMsg EXCEPT !.json = "array"]
WsMessages == {TradeMsg, TopMsg, InvalidMsg, ArrayMsg}
WsTopics ==
    {Topic("stockinfo", <<"ABC">>), Topic("topprice", <<"ABC">>),
     Topic("tick", <<"ABC">>), <<"plaintext/quotes/krx/mdds/", "stockinfo">>}

\* Bags of transport calls, per topic.
NoCalls == [sub |-> [t \in AllTopics |-> 0], unsub |-> [t \in AllTopics |-> 0]]

SymbolTopics(symbol) == {Topic("stockinfo", symbol), Topic("topprice", symbol)}
SymbolItems(symbol) == {Item("INFO", symbol), Item("TOP", symbol)}

\* _on_mqtt_connect, lines 204-220: one client.subscribe per record.
Resubscribe(items) ==
    [t \in AllTopics |-> Cardinality({i \in items : ItemTopic(i) = t})]

Op(name, symbol, topic, json) ==
    [op |-> name, symbol |-> symbol, topic |-> topic, json |-> json]

\* disconnect(), lines 149-155, reached from disconnect, connect and
\* update_token: the transport loop is stopped, the client dropped, the flag
\* and the subscription set cleared.  Calls already handed to the event loop
\* stay there.
Teardown ==
    /\ is_connected' = FALSE
    /\ subscribed_symbols' = {}
    /\ sentOnConn' = {}
    /\ queued' = {}
    /\ drops' = FALSE

\* connect()
DoConnect ==
    /\ IF client
       THEN Teardown
       ELSE UNCHANGED <<is_connected, subscribed_symbols, sentOnConn, queued, drops>>
    /\ client' = TRUE
    /\ lastOp' = Op("connect", <<>>, <<>>, "")
    /\ notified' = "none"
    /\ calls' = NoCalls
    /\ handed' = <<>>
    /\ raised' = FALSE
    /\ UNCHANGED <<loopQueue, delivered, msgs, garbled>>

WsConnect ==
    /\ DoConnect
    /\ UNCHANGED <<authVars, tickVars, appVars>>

\* disconnect()
DoDisconnect ==
    /\ Teardown
    /\ client' = FALSE
    /\ lastOp' = Op("disconnect", <<>>, <<>>, "")
    /\ notified' = "none"
    /\ calls' = NoCalls
    /\ handed' = <<>>
    /\ raised' = FALSE
    /\ UNCHANGED <<loopQueue, delivered, msgs, garbled>>

WsDisconnect ==
    /\ DoDisconnect
    /\ UNCHANGED <<authVars, tickVars, appVars>>

\* update_token(jwt_token): when connected, disconnect() and then connect().
UpdateToken ==
    /\ IF is_connected
       THEN Teardown /\ client' = TRUE
       ELSE UNCHANGED <<client, is_connected, subscribed_symbols, sentOnConn,
                        queued, drops>>
    /\ lastOp' = Op("update_token", <<>>, <<>>, "")
    /\ notified' = "none"
    /\ calls' = NoCalls
    /\ handed' = <<>>
    /\ raised' = FALSE
    /\ UNCHANGED <<loopQueue, delivered, msgs, garbled>>
    /\ UNCHANGED <<authVars, tickVars, appVars>>

\* subscribe(symbol): subscribe_stock_info, then subscribe_top_price.
DoSubscribe(symbol) ==
    LET connected == is_connected /\ client IN
    /\ subscribed_symbols' = subscribed_symbols \cup SymbolItems(symbol)
    /\ calls' = [NoCalls EXCEPT !.sub =
                    [t \in AllTopics |->
                        IF connected /\ t \in SymbolTopics(symbol) THEN 1 ELSE 0]]
    /\ sentOnConn' = IF connected THEN sentOnConn \cup SymbolTopics(symbol)
                     ELSE sentOnConn
    /\ queued' = IF connected THEN queued ELSE queued \cup {symbol}
    /\ lastOp' = Op("subscribe", symbol, <<>>, "")
    /\ notified' = "none"
    /\ handed' = <<>>
    /\ raised' = FALSE
    /\ UNCHANGED <<client, is_connected, loopQueue, delivered, msgs, drops,
                   garbled>>

Subscribe(symbol) ==
    /\ DoSubscribe(symbol)
    /\ UNCHANGED <<authVars, tickVars, appVars>>

\* unsubscribe, were it to discard the trade-info record only.
Unsubscribe_InfoOnly(symbol) ==
    LET connected == is_connected /\ client IN
    /\ subscribed_symbols' = subscribed_symbols \ {Item("INFO", symbol)}
    /\ calls' = [NoCalls EXCEPT !.unsub =
                    [t \in AllTopics |->
                        IF connected /\ t \in SymbolTopics(symbol) THEN 1 ELSE 0]]
    /\ sentOnConn' = IF connected THEN sentOnConn \ SymbolTopics(symbol)
                     ELSE sentOnConn
    /\ queued' = queued \ {symbol}
    /\ lastOp' = Op("unsubscribe", symbol, <<>>, "")
    /\ notified' = "none"
    /\ handed' = <<>>
    /\ raised' = FALSE
    /\ UNCHANGED <<client, is_connected, loopQueue, delivered, msgs, drops,
                   garbled>>
    /\ UNCHANGED <<authVars, tickVars, appVars>>

\* unsubscribe(symbol)
DoUnsubscribe(symbol) ==
    LET connected == is_connected /\ client IN
    /\ subscribed_symbols' = subscribed_symbols \ SymbolItems(symbol)
    /\ calls' = [NoCalls EXCEPT !.unsub =
                    [t \in AllTopics |->
                        IF connected /\ t \in SymbolTopics(symbol) THEN 1 ELSE 0]]
    /\ sentOnConn' = IF connected THEN sentOnConn \ SymbolTopics(symbol)
                     ELSE sentOnConn
    /\ queued' = queued \ {symbol}
    /\ lastOp' = Op("unsubscribe", symbol, <<>>, "")
    /\ notified' = "none"
    /\ handed' = <<>>
    /\ raised' = FALSE
    /\ UNCHANGED <<client, is_connected, loopQueue, delivered, msgs, drops,
                   garbled>>

Unsubscribe(symbol) ==
    /\ DoUnsubscribe(symbol)
    /\ UNCHANGED <<authVars, tickVars, appVars>>

\* _on_mqtt_connect, were it to take every acknowledgement for a success.
OnMqttConnect_IgnoreRc(rc) ==
    /\ client /\ ~is_connected
    /\ is_connected' = TRUE
    /\ calls' = [NoCalls EXCEPT !.sub = Resubscribe(subscribed_symbols)]
    /\ sentOnConn' = {ItemTopic(i) : i \in subscribed_symbols}
    /\ lastOp' = Op("on_connect", <<>>, <<>>, IF rc = 0 THEN "ok" ELSE "refused")
    /\ notified' = "on_connected"
    /\ handed' = <<>>
    /\ raised' = FALSE
    /\ UNCHANGED <<client, subscribed_symbols, loopQueue, delivered, msgs,
                   queued, drops, garbled>>
    /\ UNCHANGED <<authVars, tickVars, appVars>>

\* _on_mqtt_connect(rc): the transport, created by connect() and not yet or
\* no longer connected, reports the outcome of a connection attempt.  The
\* connected and disconnected callbacks, when configured, are handed to the
\* event loop (lines 222-227, 237-241).
DoOnMqttConnect(rc) ==
    /\ client /\ ~is_connected
    /\ is_connected' = (rc = 0)
    /\ calls' = IF rc = 0
                THEN [NoCalls EXCEPT !.sub = Resubscribe(subscribed_symbols)]
                ELSE NoCalls
    /\ sentOnConn' = IF rc = 0
                     THEN {ItemTopic(i) : i \in subscribed_symbols}
                     ELSE sentOnConn
    /\ lastOp' = Op("on_connect", <<>>, <<>>, IF rc = 0 THEN "ok" ELSE "refused")
    /\ notified' = IF rc = 0 THEN "on_connected" ELSE "none"
    /\ handed' = <<>>
    /\ raised' = FALSE
    /\ UNCHANGED <<client, subscribed_symbols, loopQueue, delivered, msgs,
                   queued, drops, garbled>>

OnMqttConnect(rc) ==
    /\ DoOnMqttConnect(rc)
    /\ UNCHANGED <<authVars, tickVars, appVars>>

\* _on_mqtt_disconnect, were it to forget the subscriptions.
OnMqttDisconnect_Clearing ==
    /\ client /\ is_connected
    /\ is_connected' = FALSE
    /\ subscribed_symbols' = {}
    /\ sentOnConn' = {}
    /\ queued' = {}
    /\ drops' = TRUE
    /\ lastOp' = Op("on_disconnect", <<>>, <<>>, "")
    /\ notified' = "on_disconnected"
    /\ calls' = NoCalls
    /\ handed' = <<>>
    /\ raised' = FALSE
    /\ UNCHANGED <<client, loopQueue, delivered, msgs, garbled>>
    /\ UNCHANGED <<authVars, tickVars, appVars>>

\* _on_mqtt_disconnect: the transport lost its connection.
DoOnMqttDisconnect ==
    /\ client /\ is_connected
    /\ is_connected' = FALSE
    /\ sentOnConn' = {}
    /\ drops' = TRUE
    /\ lastOp' = Op("on_disconnect", <<>>, <<>>, "")
    /\ notified' = "on_disconnected"
    /\ calls' = NoCalls
    /\ handed' = <<>>
    /\ raised' = FALSE
    /\ UNCHANGED <<client, subscribed_symbols, loopQueue, delivered, msgs,
                   queued, garbled>>

OnMqttDisconnect ==
    /\ DoOnMqttDisconnect
    /\ UNCHANGED <<authVars, tickVars, appVars>>

\* _on_mqtt_message: a message arrives on the live connection; each tick is
\* handed to the event loop (call_soon_threadsafe; connect() has set _loop).
OnMqttMessage(topic, msg) ==
    /\ client /\ is_connected
    /\ msgs < MaxMsgs
    /\ msgs' = msgs + 1
    /\ LET r == MessageHandler(topic, msg) IN
          /\ loopQueue' = loopQueue \o r.ticks
          /\ handed' = r.ticks
          /\ raised' = r.raised
    /\ garbled' = IF msg.json = "invalid" THEN garbled \cup {topic} ELSE garbled
    /\ lastOp' = Op("on_message", <<>>, topic, msg.json)
    /\ notified' = "none"
    /\ calls' = NoCalls
    /\ UNCHANGED <<client, is_connected, subscribed_symbols, delivered,
                   sentOnConn, queued, drops>>
    /\ UNCHANGED <<authVars, tickVars, appVars>>

\* The event loop runs the oldest on_tick call handed to it.
LoopRun ==
    /\ loopQueue # <<>>
    /\ loopQueue' = Tail(loopQueue)
    /\ delivered' = delivered + 1
    /\ lastOp' = Op("on_tick", loopQueue[1].symbol, <<>>, "")
    /\ notified' = "none"
    /\ calls' = NoCalls
    /\ handed' = <<>>
    /\ raised' = FALSE
    /\ UNCHANGED <<client, is_connected, subscribed_symbols, msgs,
                   sentOnConn, queued, drops, garbled>>
    /\ UNCHANGED <<authVars, tickVars, appVars>>

NextWs ==
    \/ WsConnect
    \/ WsDisconnect
    \/ UpdateToken
    \/ \E symbol \in Symbols : Subscribe(symbol)
    \/ \E symbol \in Symbols : Unsubscribe(symbol)
    \/ \E rc \in {0, 5} : OnMqttConnect(rc)
    \/ OnMqttDisconnect
    \/ \E topic \in WsTopics, msg \in WsMessages : OnMqttMessage(topic, msg)
    \/ LoopRun

(***************************************************************************)
(* The normalizer on bounded trade-info payloads: objects with at most     *)
(* MaxFields of the keys _parse_stock_info reads.                          *)
(***************************************************************************)
MaxFields == 2

TradeKeys ==
    {"matchPrice", "lastPrice", "matchQuantity", "lastVolume",
     "totalVolumeTraded", "grossTradeAmount", "openPrice",
     "highestPrice", "highPrice", "lowestPrice", "lowPrice",
     "referencePrice", "closePrice"}
Values == {Null, Num(0), Num(1), Num(2), Str}
TradeObjects ==
    UNION {[ks -> Values] : ks \in {x \in SUBSET TradeKeys : Cardinality(x) <= MaxFields}}
TradePayloads == {[TradeMsg EXCEPT !.obj = o] : o \in TradeObjects}

(***************************************************************************)
(* Bounded top-of-book payloads: level arrays of at most MaxLevels levels. *)
(* A level is an object over "price", "qtty" and "quantity"; Absent marks  *)
(* a key the object does not have.                                         *)
(***************************************************************************)
MaxLevels == 2

Absent == [t |-> "absent", n |-> 0]

\* The JSON object holding the keys of f that are not Absent.
Object(f) == [k \in {x \in DOMAIN f : f[x] # Absent} |-> f[k]]

Level(price, qtty, quantity_) ==
    Object([k \in {"price", "qtty", "quantity"} |->
               CASE k = "price" -> price
                 [] k = "qtty" -> qtty
                 [] OTHER -> quantity_])

LevelPrices == {Absent, Null, Num(0), Num(2), Str}
LevelQuantities ==
    {<<Absent, Absent>>, <<Num(3), Absent>>, <<Num(3), Num(4)>>,
     <<Num(0), Num(4)>>, <<Str, Absent>>}
Levels == {Level(p, q[1], q[2]) : p \in LevelPrices, q \in LevelQuantities}
LevelArrays == UNION {[1..n -> Levels] : n \in 0..MaxLevels}

BookMsg(obj, bid, offer, ask) ==
    [json |-> "object", obj |-> obj, symbol |-> <<>>,
     bid |-> bid, offer |-> offer, ask |-> ask]

\* The payloads that carry the array a as bid, as offer or as ask array.
BookPayloads(a) ==
    {BookMsg(o, a, <<>>, <<>>) : o \in {NoFields, TradeMsg.obj}}
    \cup {BookMsg(o, TopMsg.bid, a, TopMsg.bid) : o \in {NoFields, TradeMsg.obj}}
    \cup {BookMsg(o, TopMsg.bid, <<>>, a) : o \in {NoFields, TradeMsg.obj}}

TradeBookPayloads ==
    {BookMsg(o, TopMsg.bid, TopMsg.offer, <<>>) : o \in TradeObjects}

\* The message handler runs on the payload, on the topic of ABC's feed.
Normalize ==
    /\ ~normalized
    /\ normalized' = TRUE
    /\ tick' = MessageHandler(Topic(onFeed, <<"ABC">>), payload)
    /\ UNCHANGED <<payload, onFeed, cred, at, verdict>>
    /\ UNCHANGED <<authVars, wsVars, appVars>>

NextTick == Normalize

(***************************************************************************)
(* The credential's properties and get_auth_headers on bounded             *)
(* credentials: every combination of a primary expiry, a secondary token   *)
(* or none, and a secondary expiry or none, at every time up to MaxTime.   *)
(***************************************************************************)
MaxTime == 2

Times == 0..MaxTime
Credentials ==
    {<<>>} \cup
    {<<DNSETokens(1, jwtExp, tt, ttExp)>> :
        jwtExp \in Times, tt \in {NoToken, 2}, ttExp \in {NoTime} \cup Times}

\* The properties of DNSETokens and of DNSEAuthProvider and both header sets
\* are computed for the credential.  A property of DNSETokens has no value,
\* <<>>, when the provider holds no DNSETokens.
Evaluate ==
    /\ ~verdict.evaluated
    /\ verdict' =
          [evaluated |-> TRUE,
           is_jwt_expired |->
              IF cred = <<>> THEN <<>> ELSE <<is_jwt_expired(cred[1], at)>>,
           is_trading_token_expired |->
              IF cred = <<>> THEN <<>>
              ELSE <<is_trading_token_expired(cred[1], at)>>,
           is_authenticated |-> is_authenticated(cred, at),
           has_trading_token |-> has_trading_token(cred, at),
           headers |-> [b \in BOOLEAN |-> get_auth_headers(cred, b)]]
    /\ UNCHANGED <<payload, normalized, tick, onFeed, cred, at>>
    /\ UNCHANGED <<authVars, wsVars, appVars>>

NextCred == Evaluate

InitAuth ==
    /\ otp_callback \in BOOLEAN
    /\ httpSession = FALSE
    /\ authSession = FALSE
    /\ tokens = <<>>
    /\ now = 0
    /\ ticks = 0
    /\ loginsSent = 0
    /\ otpsSent = 0
    /\ refresh = "off"
    /\ refreshTok = NoToken
    /\ refreshErrors = 0
    /\ call = [c \in Callers |-> IdleCall]

InitWs ==
    /\ client = FALSE
    /\ is_connected = FALSE
    /\ subscribed_symbols = {}
    /\ loopQueue = <<>>
    /\ delivered = 0
    /\ msgs = 0
    /\ lastOp = Op("init", <<>>, <<>>, "")
    /\ calls = NoCalls
    /\ handed = <<>>
    /\ raised = FALSE
    /\ notified = "none"
    /\ sentOnConn = {}
    /\ queued = {}
    /\ drops = FALSE
    /\ garbled = {}

NoVerdict == [evaluated |-> FALSE]

InitCredential ==
    /\ cred = <<>>
    /\ at = 0
    /\ verdict = NoVerdict

InitTick ==
    /\ payload = TradeMsg
    /\ normalized = FALSE
    /\ tick = [raised |-> FALSE, ticks |-> <<>>]
    /\ onFeed = "stockinfo"
    /\ InitCredential

IdleApp == [pc |-> "idle", symbol |-> <<>>, type_ |-> ""]
IdleAck == [pc |-> "idle", todo |-> {}, used |-> 0]

InitRace ==
    /\ app = IdleApp
    /\ ack = IdleAck

DataOp(name, instrument_id) == [op |-> name, instrument_id |-> instrument_id]

InitData ==
    /\ ws_client = FALSE
    /\ subscribed_quote_ticks = {}
    /\ subscribed_trade_ticks = {}
    /\ dataOp = DataOp("init", <<>>)

\* RollingPriceChannel(window_seconds)
NewChannel(window) ==
    /\ window_seconds = window
    /\ prices = <<>>
    /\ high = Null
    /\ low = Null
    /\ observed = <<>>

Frac(n, d) == [n |-> n, d |-> d]
NoBotOp == [op |-> "init", side |-> "", mode |-> ""]

\* PortfolioTakeProfitBot() after start() has fetched a position of 'held'
\* shares at an average cost of 'cost'.
Started(held, cost) ==
    /\ quantity = held
    /\ initial_quantity = held
    /\ avg_cost = Frac(cost, 1)
    /\ last_bid = 0
    /\ last_ask = 0
    /\ last_trade_price = 0
    /\ in_crisis_mode = FALSE
    /\ cooling = FALSE
    /\ tasks = <<>>
    /\ created = 0
    /\ botOp = NoBotOp

InitApp == InitRace /\ InitData /\ NewChannel(0) /\ Started(0, 0)

Init == InitAuth /\ InitWs /\ InitTick /\ InitApp

SpecAuth == Init /\ [][NextAuth]_vars

SpecRequest == Init /\ [][NextRequest]_vars

\* Every POST and request is cut off by the session's ClientTimeout
\* (HTTP_TIMEOUT): it is answered or fails; and asyncio.sleep returns.
Answers ==
    /\ WF_vars(\E c \in App, o \in LoginOutcomes : LoginResponse(c, o))
    /\ WF_vars(\E c \in App, o \in LoginOutcomes : OtpResponse(c, o))
    /\ WF_vars(\E c \in App, s \in Statuses : HttpResponse(c, s))
    /\ WF_vars(\E c \in App : BackoffDone(c))

\* The refresh loop on the clock: after a connect, time passes as the loop
\* sleeps.
NextClock ==
    \/ \E c \in App : Connect(c)
    \/ \E c \in App, o \in LoginOutcomes : LoginResponse(c, o)
    \/ RefreshWakeOnTime
    \/ \E o \in LoginOutcomes : RefreshLoginResponse(o)

SpecClock == Init /\ [][NextClock]_vars

\* One task connects and executes requests; the clock stands still.
NextExecute ==
    \/ \E c \in App : Connect(c)
    \/ \E c \in App, need \in BOOLEAN : Request(c, need)
    \/ \E c \in App, o \in LoginOutcomes : LoginResponse(c, o)
    \/ \E c \in App, o \in LoginOutcomes : OtpResponse(c, o)
    \/ \E c \in App, s \in Statuses : HttpResponse(c, s)
    \/ \E c \in App : BackoffDone(c)
    \/ \E c \in App : Finish(c)

SpecExecute == Init /\ [][NextExecute]_vars /\ Answers

SpecSession == Init /\ [][NextSession]_vars

SpecWs == Init /\ [][NextWs]_vars

InitPayload ==
    /\ InitAuth /\ otp_callback = FALSE
    /\ InitWs /\ InitApp
    /\ payload \in TradePayloads
    /\ normalized = FALSE
    /\ tick = [raised |-> FALSE, ticks |-> <<>>]
    /\ onFeed = "stockinfo"
    /\ InitCredential

SpecTick == InitPayload /\ [][NextTick]_vars

\* Top-of-book payloads that also carry trade fields, and trade payloads that
\* also carry level arrays, each on the topic of its feed.
InitBook ==
    /\ InitAuth /\ otp_callback = FALSE
    /\ InitWs /\ InitApp
    /\ \/ onFeed = "topprice" /\ \E a \in LevelArrays : payload \in BookPayloads(a)
       \/ onFeed = "stockinfo" /\ payload \in TradeBookPayloads
    /\ normalized = FALSE
    /\ tick = [raised |-> FALSE, ticks |-> <<>>]
    /\ InitCredential

SpecBook == InitBook /\ [][NextTick]_vars

\* Every credential over the bounded tokens and times, at every time.
InitCredentials ==
    /\ InitAuth /\ otp_callback = FALSE
    /\ InitWs /\ InitApp
    /\ payload = TradeMsg
    /\ normalized = FALSE
    /\ tick = [raised |-> FALSE, ticks |-> <<>>]
    /\ onFeed = "stockinfo"
    /\ cred \in Credentials
    /\ at \in Times
    /\ verdict = NoVerdict

SpecCred == InitCredentials /\ [][NextCred]_vars

(***************************************************************************)
(* subscribe(symbol) on the application thread beside _on_mqtt_connect on  *)
(* the transport's network thread (loop_start(), websocket/client.py 133). *)
(* A step is one read or one write of the fields the two threads share:    *)
(* _is_connected and _subscribed_symbols.  No lock guards either.          *)
(***************************************************************************)
WsQuiet ==
    UNCHANGED <<loopQueue, delivered, msgs, lastOp, calls, handed, raised,
                notified, queued, drops, garbled>>

FeedOf(type_) == IF type_ = "INFO" THEN "stockinfo" ELSE "topprice"

\* connect() on the application thread, before any subscribe.
RaceConnect ==
    /\ app.pc = "idle" /\ ~client
    /\ WsConnect

\* subscribe(symbol) is entered: subscribe_stock_info comes first.
SubscribeCall(symbol) ==
    /\ app.pc = "idle"
    /\ app' = [pc |-> "check", symbol |-> symbol, type_ |-> "INFO"]
    /\ UNCHANGED <<client, is_connected, subscribed_symbols, sentOnConn, ack>>
    /\ WsQuiet
    /\ UNCHANGED <<authVars, tickVars, dataVars, chanVars, botVars>>

\* "if not self._is_connected or self._client is None": the flag is read.
SubscribeCheck ==
    /\ app.pc = "check"
    /\ app' = [app EXCEPT !.pc = IF ~is_connected \/ ~client
                                 THEN "queue" ELSE "send"]
    /\ UNCHANGED <<client, is_connected, subscribed_symbols, sentOnConn, ack>>
    /\ WsQuiet
    /\ UNCHANGED <<authVars, tickVars, dataVars, chanVars, botVars>>

\* self._client.subscribe(topic, qos=0)
SubscribeSend ==
    /\ app.pc = "send"
    /\ sentOnConn' = sentOnConn \cup {Topic(FeedOf(app.type_), app.symbol)}
    /\ app' = [app EXCEPT !.pc = "add"]
    /\ UNCHANGED <<client, is_connected, subscribed_symbols, ack>>
    /\ WsQuiet
    /\ UNCHANGED <<authVars, tickVars, dataVars, chanVars, botVars>>

\* self._subscribed_symbols.add(...), on either branch; subscribe(symbol)
\* goes on to subscribe_top_price, or returns.
SubscribeAdd ==
    /\ app.pc \in {"queue", "add"}
    /\ subscribed_symbols' = subscribed_symbols \cup {Item(app.type_, app.symbol)}
    /\ app' = IF app.type_ = "INFO"
              THEN [app EXCEPT !.pc = "check", !.type_ = "TOP"]
              ELSE IdleApp
    /\ UNCHANGED <<client, is_connected, sentOnConn, ack>>
    /\ WsQuiet
    /\ UNCHANGED <<authVars, tickVars, dataVars, chanVars, botVars>>

\* _on_mqtt_connect(rc) is entered: "self._is_connected = True", or False on
\* a refusal.
AckSetFlag(rc) ==
    /\ client /\ ~is_connected /\ ack.pc = "idle"
    /\ is_connected' = (rc = 0)
    /\ sentOnConn' = IF rc = 0 THEN {} ELSE sentOnConn
    /\ ack' = IF rc = 0 THEN [IdleAck EXCEPT !.pc = "iter"] ELSE IdleAck
    /\ UNCHANGED <<client, subscribed_symbols, app>>
    /\ WsQuiet
    /\ UNCHANGED <<authVars, tickVars, dataVars, chanVars, botVars>>

\* "for item in self._subscribed_symbols": the iterator is created over the
\* set as it is now, and remembers its size.
AckIterate ==
    /\ ack.pc = "iter"
    /\ ack' = [pc |-> "next", todo |-> subscribed_symbols,
               used |-> Cardinality(subscribed_symbols)]
    /\ UNCHANGED <<client, is_connected, subscribed_symbols, sentOnConn, app>>
    /\ WsQuiet
    /\ UNCHANGED <<authVars, tickVars, dataVars, chanVars, botVars>>

\* One turn of the loop.  A set whose size has changed since the iterator
\* was created makes the next turn raise RuntimeError, which ends the
\* handler; otherwise the next record, in the set's own order, is subscribed.
AckNext ==
    /\ ack.pc = "next"
    /\ IF Cardinality(subscribed_symbols) # ack.used
       THEN /\ ack' = IdleAck
            /\ UNCHANGED sentOnConn
       ELSE IF ack.todo = {}
       THEN /\ ack' = [ack EXCEPT !.pc = "notify"]
            /\ UNCHANGED sentOnConn
       ELSE \E item \in ack.todo :
              /\ sentOnConn' = sentOnConn \cup {ItemTopic(item)}
              /\ ack' = [ack EXCEPT !.todo = @ \ {item}]
    /\ UNCHANGED <<client, is_connected, subscribed_symbols, app>>
    /\ WsQuiet
    /\ UNCHANGED <<authVars, tickVars, dataVars, chanVars, botVars>>

\* The connected callback is handed on and the handler returns.
AckNotify ==
    /\ ack.pc = "notify"
    /\ ack' = IdleAck
    /\ UNCHANGED <<client, is_connected, subscribed_symbols, sentOnConn, app>>
    /\ WsQuiet
    /\ UNCHANGED <<authVars, tickVars, dataVars, chanVars, botVars>>

NextRace ==
    \/ RaceConnect
    \/ \E symbol \in Symbols : SubscribeCall(symbol)
    \/ SubscribeCheck
    \/ SubscribeSend
    \/ SubscribeAdd
    \/ \E rc \in {0, 5} : AckSetFlag(rc)
    \/ AckIterate
    \/ AckNext
    \/ AckNotify

SpecRace == Init /\ [][NextRace]_vars

(***************************************************************************)
(* The data client (data/client.py).  Its methods are coroutines without   *)
(* an await between their reads and writes of the subscription sets, so    *)
(* each subscribe or unsubscribe is one step.  The streaming manager it    *)
(* drives is the one modelled above.                                       *)
(***************************************************************************)
VENUE == "DNSE"

\* The instruments of the adapter: a symbol at the adapter's venue.
Instruments == {[symbol |-> symbol, venue |-> VENUE] : symbol \in Symbols}

instrument_id_to_symbol(instrument_id) == instrument_id.symbol

\* _connect(), the REST client having connected and answered the account
\* query: a streaming manager is created and connected.
DataConnect ==
    /\ ~ws_client
    /\ DoConnect
    /\ ws_client' = TRUE
    /\ dataOp' = DataOp("connect", <<>>)
    /\ UNCHANGED <<subscribed_quote_ticks, subscribed_trade_ticks>>
    /\ UNCHANGED <<authVars, tickVars, raceVars, chanVars, botVars>>

\* _disconnect()
DataDisconnect ==
    /\ IF ws_client THEN DoDisconnect ELSE UNCHANGED wsVars
    /\ ws_client' = FALSE
    /\ subscribed_quote_ticks' = {}
    /\ subscribed_trade_ticks' = {}
    /\ dataOp' = DataOp("disconnect", <<>>)
    /\ UNCHANGED <<authVars, tickVars, raceVars, chanVars, botVars>>

\* _subscribe_quote_ticks(instrument_id)
SubscribeQuoteTicks(instrument_id) ==
    /\ IF ~ws_client
       THEN UNCHANGED <<wsVars, subscribed_quote_ticks>>
       ELSE /\ DoSubscribe(instrument_id_to_symbol(instrument_id))
            /\ subscribed_quote_ticks' = subscribed_quote_ticks \cup {instrument_id}
    /\ dataOp' = DataOp("subscribe_quote_ticks", instrument_id)
    /\ UNCHANGED <<ws_client, subscribed_trade_ticks>>
    /\ UNCHANGED <<authVars, tickVars, raceVars, chanVars, botVars>>

\* _subscribe_trade_ticks(instrument_id)
SubscribeTradeTicks(instrument_id) ==
    /\ IF ~ws_client
       THEN UNCHANGED <<wsVars, subscribed_trade_ticks>>
       ELSE /\ DoSubscribe(instrument_id_to_symbol(instrument_id))
            /\ subscribed_trade_ticks' = subscribed_trade_ticks \cup {instrument_id}
    /\ dataOp' = DataOp("subscribe_trade_ticks", instrument_id)
    /\ UNCHANGED <<ws_client, subscribed_quote_ticks>>
    /\ UNCHANGED <<authVars, tickVars, raceVars, chanVars, botVars>>

\* _unsubscribe_quote_ticks, were it to unsubscribe the symbol whatever the
\* trade-tick set holds.
UnsubscribeQuoteTicks_Always(instrument_id) ==
    /\ subscribed_quote_ticks' = subscribed_quote_ticks \ {instrument_id}
    /\ IF ws_client
       THEN DoUnsubscribe(instrument_id_to_symbol(instrument_id))
       ELSE UNCHANGED wsVars
    /\ dataOp' = DataOp("unsubscribe_quote_ticks", instrument_id)
    /\ UNCHANGED <<ws_client, subscribed_trade_ticks>>
    /\ UNCHANGED <<authVars, tickVars, raceVars, chanVars, botVars>>

\* _unsubscribe_quote_ticks(instrument_id)
UnsubscribeQuoteTicks(instrument_id) ==
    /\ subscribed_quote_ticks' = subscribed_quote_ticks \ {instrument_id}
    /\ IF instrument_id \notin subscribed_trade_ticks /\ ws_client
       THEN DoUnsubscribe(instrument_id_to_symbol(instrument_id))
       ELSE UNCHANGED wsVars
    /\ dataOp' = DataOp("unsubscribe_quote_ticks", instrument_id)
    /\ UNCHANGED <<ws_client, subscribed_trade_ticks>>
    /\ UNCHANGED <<authVars, tickVars, raceVars, chanVars, botVars>>

\* _unsubscribe_trade_ticks(instrument_id)
UnsubscribeTradeTicks(instrument_id) ==
    /\ subscribed_trade_ticks' = subscribed_trade_ticks \ {instrument_id}
    /\ IF instrument_id \notin subscribed_quote_ticks /\ ws_client
       THEN DoUnsubscribe(instrument_id_to_symbol(instrument_id))
       ELSE UNCHANGED wsVars
    /\ dataOp' = DataOp("unsubscribe_trade_ticks", instrument_id)
    /\ UNCHANGED <<ws_client, subscribed_quote_ticks>>
    /\ UNCHANGED <<authVars, tickVars, raceVars, chanVars, botVars>>

\* The transport's callbacks on the data client's manager; the data client's
\* own connected / disconnected callbacks only log (lines 248-254).
DataOnMqttConnect(rc) ==
    /\ ws_client
    /\ DoOnMqttConnect(rc)
    /\ dataOp' = DataOp("on_ws", <<>>)
    /\ UNCHANGED <<ws_client, subscribed_quote_ticks, subscribed_trade_ticks>>
    /\ UNCHANGED <<authVars, tickVars, raceVars, chanVars, botVars>>

DataOnMqttDisconnect ==
    /\ ws_client
    /\ DoOnMqttDisconnect
    /\ dataOp' = DataOp("on_ws", <<>>)
    /\ UNCHANGED <<ws_client, subscribed_quote_ticks, subscribed_trade_ticks>>
    /\ UNCHANGED <<authVars, tickVars, raceVars, chanVars, botVars>>

NextData ==
    \/ DataConnect
    \/ DataDisconnect
    \/ \E instrument_id \in Instruments : SubscribeQuoteTicks(instrument_id)
    \/ \E instrument_id \in Instruments : SubscribeTradeTicks(instrument_id)
    \/ \E instrument_id \in Instruments : UnsubscribeQuoteTicks(instrument_id)
    \/ \E instrument_id \in Instruments : UnsubscribeTradeTicks(instrument_id)
    \/ \E rc \in {0, 5} : DataOnMqttConnect(rc)
    \/ DataOnMqttDisconnect

SpecData == Init /\ [][NextData]_vars

(***************************************************************************)
(* RollingPriceChannel (examples/price_channel_bot.py 57-100; the test     *)
(* file carries a copy).  Timestamps are whole seconds and prices whole    *)
(* numbers; the caller hands in timestamps that never decrease.            *)
(***************************************************************************)
MaxObs == 3
MaxStamp == 3
MaxPrice == 3
MaxWindow == 2

\* _prune(current_time), the cutoff already computed: the deque is popped
\* from the left while its first observation is older than the cutoff.
RECURSIVE prune_Inclusive(_, _)
prune_Inclusive(deque, cutoff) ==
    IF deque # <<>> /\ deque[1][1] <= cutoff
    THEN prune_Inclusive(Tail(deque), cutoff)
    ELSE deque

RECURSIVE prune(_, _)
prune(deque, cutoff) ==
    IF deque # <<>> /\ deque[1][1] < cutoff
    THEN prune(Tail(deque), cutoff)
    ELSE deque

\* max(prices) and min(prices) over the list of the deque's prices.
RECURSIVE max(_)
max(list) ==
    IF Len(list) = 1 THEN list[1]
    ELSE LET rest == max(Tail(list)) IN IF list[1] >= rest THEN list[1] ELSE rest

RECURSIVE min(_)
min(list) ==
    IF Len(list) = 1 THEN list[1]
    ELSE LET rest == min(Tail(list)) IN IF list[1] <= rest THEN list[1] ELSE rest

\* _recalculate()
recalculate(deque) ==
    IF deque = <<>>
    THEN [high |-> Null, low |-> Null]
    ELSE LET list == [i \in 1..Len(deque) |-> deque[i][2]] IN
         [high |-> max(list), low |-> min(list)]

\* add_price(price, timestamp): append, _prune(timestamp), _recalculate().
AddPrice(price, timestamp) ==
    /\ Len(observed) < MaxObs
    /\ observed # <<>> => timestamp >= observed[Len(observed)][1]
    /\ LET kept == prune(Append(prices, <<timestamp, price>>),
                         timestamp - window_seconds)
           channel == recalculate(kept) IN
       /\ prices' = kept
       /\ high' = channel.high
       /\ low' = channel.low
    /\ observed' = Append(observed, <<timestamp, price>>)
    /\ UNCHANGED window_seconds
    /\ UNCHANGED <<authVars, wsVars, tickVars, raceVars, dataVars, botVars>>

NextChannel == \E price \in 1..MaxPrice, timestamp \in 0..MaxStamp : AddPrice(price, timestamp)

\* A channel of every window length within the bound.
InitChannel ==
    /\ InitAuth /\ InitWs /\ InitTick /\ InitRace /\ InitData /\ Started(0, 0)
    /\ \E window \in 0..MaxWindow : NewChannel(window)

SpecChannel == InitChannel /\ [][NextChannel]_vars

(***************************************************************************)
(* The portfolio take-profit bot (examples/portfolio_take_profit.py) in    *)
(* simulation mode (SIMULATION_MODE = True, line 53).  on_tick runs on the *)
(* event loop; each order it signals is a task (asyncio.create_task) that  *)
(* the loop runs later.  Decimal values are exact fractions [n, d], d > 0. *)
(* The steps are the ticks, the simulated executions and the passing of    *)
(* the cooldown; the periodic holdings refresh of the main loop is not     *)
(* among them.                                                             *)
(***************************************************************************)
MaxOrders == 3

ORDER_SIZE_PCT == 10
SCALP_SIZE_PCT == 5
TAKE_PROFIT_THRESHOLD == Frac(1, 100)
ACCUMULATE_THRESHOLD == Frac(-1, 100)
CRISIS_THRESHOLD == Frac(-10, 100)
CRISIS_EXIT == Frac(-8, 100)
SCALP_STEP == Frac(1, 100)

\* The position start() finds, and the prices the ticks carry.
HeldQuantities == {25, 240}
HeldCost == 10
BotPrices == {4, 5, 6, 11}
BotTicks ==
    [bid_price : {0} \cup BotPrices, ask_price : {0} \cup BotPrices,
     last_price : {0, 5}]

RECURSIVE Gcd(_, _)
Gcd(a, b) == IF b = 0 THEN a ELSE Gcd(b, a % b)

Abs(i) == IF i < 0 THEN -i ELSE i

\* The fraction n / d, d # 0, in lowest terms with a positive denominator.
Reduce(n, d) ==
    LET g == Gcd(Abs(n), Abs(d))
        sign == IF d < 0 THEN -1 ELSE 1 IN
    Frac(sign * (n \div g), sign * (d \div g))

Less(x, y) == x.n * y.d < y.n * x.d
AtMost(x, y) == x.n * y.d <= y.n * x.d

\* (price - base) / base, for a whole price and a fraction base # 0.
Change(price, base) == Reduce(price * base.d - base.n, base.n)

\* max(10, int(self.quantity * pct)): int() truncates towards zero.
OrderSize(pct) ==
    LET part == IF quantity >= 0 THEN (quantity * pct) \div 100
                ELSE -((-quantity * pct) \div 100) IN
    IF part > 10 THEN part ELSE 10

Order(side, price, size, mode) ==
    [side |-> side, price |-> price, quantity |-> size, mode |-> mode]

\* _handle_normal_mode(pnl_bid, pnl_ask): the order it signals, if any.
handle_normal_mode(bid, ask, pnl_bid, pnl_ask) ==
    IF AtMost(TAKE_PROFIT_THRESHOLD, pnl_bid)
    THEN <<Order("SELL", bid, OrderSize(ORDER_SIZE_PCT), "normal")>>
    ELSE IF AtMost(pnl_ask, ACCUMULATE_THRESHOLD)
    THEN <<Order("BUY", ask, OrderSize(ORDER_SIZE_PCT), "normal")>>
    ELSE <<>>

\* _handle_crisis_mode(): the order it signals, if any, and the reference
\* price it leaves; 'ref' is last_trade_price on entry.
handle_crisis_mode(bid, ask, ref) ==
    IF ref = 0
    THEN [orders |-> <<>>, ref |-> bid]
    ELSE IF AtMost(SCALP_STEP, Change(bid, Frac(ref, 1)))
            /\ quantity <= initial_quantity
    THEN [orders |-> <<Order("SELL", bid, OrderSize(SCALP_SIZE_PCT), "crisis")>>,
          ref |-> bid]
    ELSE IF AtMost(Change(ask, Frac(ref, 1)), [n |-> -SCALP_STEP.n, d |-> SCALP_STEP.d])
            /\ quantity < initial_quantity
    THEN [orders |-> <<Order("BUY", ask, OrderSize(SCALP_SIZE_PCT), "crisis")>>,
          ref |-> ask]
    ELSE [orders |-> <<>>, ref |-> ref]

\* on_tick(tick), for a tick of SYMBOL.
OnTick(market_tick) ==
    LET bid0 == IF market_tick.bid_price > 0 THEN market_tick.bid_price ELSE last_bid
        ask0 == IF market_tick.ask_price > 0 THEN market_tick.ask_price ELSE last_ask
        bid == IF bid0 = 0 /\ market_tick.last_price > 0 THEN market_tick.last_price ELSE bid0
        ask == IF ask0 = 0 /\ market_tick.last_price > 0 THEN market_tick.last_price ELSE ask0
        pnl_bid == Change(bid, avg_cost)
        pnl_ask == Change(ask, avg_cost)
        enters == Less(pnl_bid, CRISIS_THRESHOLD) /\ ~in_crisis_mode
        leaves == /\ ~Less(pnl_bid, CRISIS_THRESHOLD) /\ in_crisis_mode
                  /\ Less(CRISIS_EXIT, pnl_bid)
        crisis == (in_crisis_mode \/ enters) /\ ~leaves
        ref == IF enters THEN bid ELSE last_trade_price
        scalp == handle_crisis_mode(bid, ask, ref)
    IN
    /\ created < MaxOrders
    /\ last_bid' = bid
    /\ last_ask' = ask
    /\ botOp' = [op |-> "on_tick", side |-> "", mode |-> ""]
    /\ IF quantity = 0 \/ avg_cost.n = 0 \/ bid = 0 \/ ask = 0
       THEN UNCHANGED <<in_crisis_mode, last_trade_price, tasks, created>>
       ELSE /\ in_crisis_mode' = crisis
            /\ IF cooling
               THEN /\ last_trade_price' = ref
                    /\ UNCHANGED <<tasks, created>>
               ELSE IF crisis
               THEN /\ last_trade_price' = scalp.ref
                    /\ tasks' = tasks \o scalp.orders
                    /\ created' = created + Len(scalp.orders)
               ELSE /\ last_trade_price' = ref
                    /\ tasks' = tasks \o handle_normal_mode(bid, ask, pnl_bid, pnl_ask)
                    /\ created' = created + Len(tasks') - Len(tasks)
    /\ UNCHANGED <<quantity, initial_quantity, avg_cost, cooling>>
    /\ UNCHANGED <<authVars, wsVars, tickVars, raceVars, dataVars, chanVars>>

\* place_order(side, price, quantity), the oldest task not yet run, in
\* simulation mode.  A purchase that brings the position to zero makes the
\* division raise after the position was updated.
PlaceOrder ==
    /\ tasks # <<>>
    /\ LET order == tasks[1]
           bought == quantity + order.quantity IN
       /\ botOp' = [op |-> "place_order", side |-> order.side, mode |-> order.mode]
       /\ IF order.side = "BUY"
          THEN /\ quantity' = bought
               /\ avg_cost' = IF bought = 0 THEN avg_cost
                              ELSE Reduce(quantity * avg_cost.n
                                             + order.quantity * order.price * avg_cost.d,
                                          avg_cost.d * bought)
          ELSE /\ quantity' = quantity - order.quantity
               /\ UNCHANGED avg_cost
    /\ tasks' = Tail(tasks)
    /\ cooling' = TRUE
    /\ UNCHANGED <<initial_quantity, last_bid, last_ask, last_trade_price,
                   in_crisis_mode, created>>
    /\ UNCHANGED <<authVars, wsVars, tickVars, raceVars, dataVars, chanVars>>

\* COOLDOWN_SECONDS have passed since the last order.
CooldownOver ==
    /\ cooling
    /\ cooling' = FALSE
    /\ botOp' = [op |-> "cooldown", side |-> "", mode |-> ""]
    /\ UNCHANGED <<quantity, initial_quantity, avg_cost, last_bid, last_ask,
                   last_trade_price, in_crisis_mode, tasks, created>>
    /\ UNCHANGED <<authVars, wsVars, tickVars, raceVars, dataVars, chanVars>>

NextBot ==
    \/ \E market_tick \in BotTicks : OnTick(market_tick)
    \/ PlaceOrder
    \/ CooldownOver

InitBot ==
    /\ InitAuth /\ InitWs /\ InitTick /\ InitRace /\ InitData /\ NewChannel(0)
    /\ \E held \in HeldQuantities : Started(held, HeldCost)

SpecBot == InitBot /\ [][NextBot]_vars

(***************************************************************************)
(* Claims about the request domain.                                        *)
(***************************************************************************)
InEnsureLogin(c) == call[c].op = "ensure" /\ call[c].pc = "login"

\* C1: concurrent callers of ensure_authenticated that find no valid primary
\* token share one login: at no time do two of them each have a login request
\* of their own in flight.
C1_ConcurrentEnsureSingleLogin ==
    Cardinality({c \in Callers : InEnsureLogin(c)}) <= 1

IsOk(status) == status \in {"200", "200empty"}

\* The call of c saw 401 and then 200, and the login the 401 forced succeeded.
Saw401Then200(c) ==
    /\ call[c].op = "request"
    /\ Len(call[c].resp) = 2
    /\ call[c].resp[1] = "401"
    /\ IsOk(call[c].resp[2])
    /\ call[c].relogged = <<"ok">>

\* C2: a request answered 401 and then 200 returns the 200 body without
\* raising, having made exactly one re-login between its two requests, and
\* its second request carries the headers built from the token that re-login
\* obtained.
C2_ReloginOnceThenSuccess ==
    \A c \in App :
        Saw401Then200(c) =>
            /\ call[c].pc = "done"
            /\ call[c].result = IF call[c].resp[2] = "200" THEN "json" ELSE "empty"
            /\ Len(call[c].relogins) = 1
            /\ Len(call[c].sent) = 2
            /\ call[c].sent[2].authorization = call[c].relogins[1]
            /\ call[c].sent[2].authorization # call[c].sent[1].authorization
            /\ call[c].sent[2].content_type = "application/json"

C2_Witness ==
    /\ Saw401Then200("app")
    /\ call["app"].result = "json"
    /\ call["app"].sent[1].authorization # NoToken

\* Every response the call of c has seen so far is a 500.
Only500(c) ==
    /\ call[c].op = "request"
    /\ call[c].resp # <<>>
    /\ \A i \in 1..Len(call[c].resp) : call[c].resp[i] = "500"

\* C3: against an endpoint that always answers 500 a request sends exactly
\* MAX_RETRIES requests, forces no login, and then fails with the request
\* error: it has failed exactly when the MAX_RETRIES-th 500 has arrived, and
\* never sends a further request.
C3_Always500FailsAfterMaxRetries ==
    \A c \in App :
        Only500(c) =>
            /\ call[c].relogins = <<>>
            /\ Len(call[c].sent) <= 3
            /\ (call[c].pc = "done") = (Len(call[c].resp) = 3)
            /\ call[c].pc = "done" =>
                  /\ call[c].result = "RequestFailed"
                  /\ call[c].last_error = "HTTP 500"
                  /\ Len(call[c].sent) = 3
            /\ call[c].pc # "done" =>
                  /\ call[c].pc \in {"backoff", "http"}
                  /\ Len(call[c].sent) =
                        Len(call[c].resp) + IF call[c].pc = "http" THEN 1 ELSE 0

C3_Witness ==
    /\ Only500("app")
    /\ call["app"].pc = "done"
    /\ call["app"].result = "RequestFailed"
    /\ Len(call["app"].sent) = 3

\* C4: a successful login (a step that puts a new primary token into the
\* credential) leaves the secondary token and its expiry as they were.
C4_LoginKeepsSecondaryToken ==
    [][(/\ tokens # <<>>
        /\ tokens' # <<>>
        /\ tokens'[1].jwt_token # tokens[1].jwt_token)
       => /\ tokens'[1].trading_token = tokens[1].trading_token
          /\ tokens'[1].trading_token_expires_at
                = tokens[1].trading_token_expires_at]_vars


(***************************************************************************)
(* Claims about the streaming domain, checked under SpecWs.                *)
(***************************************************************************)
ConnectedNow == lastOp.op = "on_connect" /\ lastOp.json = "ok"

\* C5: subscribe(symbol) while the manager is not connected issues no
\* transport call; the transition to Connected that follows, be it the first
\* or one after a transport disconnect event, issues for every symbol so
\* subscribed exactly one subscribe call on its trade-info topic and exactly
\* one on its top-of-book topic, and no unsubscribe call.
C5_PendingSubscribeFlushedOnConnect ==
    /\ (lastOp.op = "subscribe" /\ ~is_connected) => calls = NoCalls
    /\ ConnectedNow =>
          /\ \A symbol \in queued :
                /\ calls.sub[Topic("stockinfo", symbol)] = 1
                /\ calls.sub[Topic("topprice", symbol)] = 1
          /\ calls.unsub = NoCalls.unsub

\* A symbol subscribed while disconnected is flushed again on the transition
\* to Connected that follows a transport disconnect event.
C5_Witness ==
    /\ ConnectedNow
    /\ drops
    /\ <<"ABC">> \in queued
    /\ calls.sub[Topic("stockinfo", <<"ABC">>)] = 1
    /\ calls.sub[Topic("topprice", <<"ABC">>)] = 1

Removed(item) == item \in subscribed_symbols /\ item \notin subscribed_symbols'

\* C6 as stated: a record leaves the desired set only in an unsubscribe call
\* for its symbol.
C6_OnlyUnsubscribeRemoves ==
    [][\A item \in subscribed_symbols :
          Removed(item) =>
             /\ lastOp'.op = "unsubscribe"
             /\ item \in SymbolItems(lastOp'.symbol)]_vars

\* C6, amended: a record leaves the desired set only in an unsubscribe call
\* for its symbol or when disconnect() runs: called directly, by connect() on
\* a manager that already has a transport, or by update_token on a connected
\* manager.  A transport disconnect event, a refused connection and
\* update_token on a manager that is not connected remove nothing, and every
\* transition to Connected re-sends each record of the set once.
C6_RecordKeptUntilUnsubscribeOrDisconnect ==
    [][/\ \A item \in subscribed_symbols :
             Removed(item) =>
                \/ lastOp'.op = "unsubscribe" /\ item \in SymbolItems(lastOp'.symbol)
                \/ lastOp'.op = "disconnect"
                \/ lastOp'.op = "connect" /\ client
                \/ lastOp'.op = "update_token" /\ is_connected
       /\ (lastOp'.op = "on_connect" /\ lastOp'.json = "ok") =>
             \A item \in subscribed_symbols' : calls'.sub[ItemTopic(item)] = 1]_vars

\* A record subscribed on a live connection has survived a transport
\* disconnect event and is re-sent on the transition to Connected.
C6_Witness ==
    /\ ConnectedNow
    /\ drops
    /\ queued = {}
    /\ Item("TOP", <<"ABC">>) \in subscribed_symbols
    /\ calls.sub[Topic("topprice", <<"ABC">>)] = 1

\* C7 as stated: subscribe(symbol), called when both records of the symbol
\* are in the desired set and both topics have been subscribed on the current
\* connection, issues no transport call and leaves the set unchanged.
C7_ResubscribeIssuesNoCall ==
    [][\A symbol \in Symbols :
          (/\ client /\ is_connected
           /\ SymbolItems(symbol) \subseteq subscribed_symbols
           /\ SymbolTopics(symbol) \subseteq sentOnConn
           /\ lastOp'.op = "subscribe" /\ lastOp'.symbol = symbol)
          => /\ calls' = NoCalls
             /\ subscribed_symbols' = subscribed_symbols]_vars

WellFormedOn(topic) ==
    /\ lastOp'.op = "on_message"
    /\ lastOp'.json = "object"
    /\ lastOp'.topic = topic

C9_BadFieldsBecomeZero ==
    normalized =>
       /\ Len(tick.ticks) = 1
       /\ ~tick.raised
       /\ \A k \in {"openPrice"} :
             (k \notin DOMAIN payload.obj \/ payload.obj[k].t # "num")
                => tick.ticks[1].open_price = 0

Field(k) == Get(payload.obj, k)

\* First alias that is not null, zero when both are.
FirstNonNull(hi, lo) ==
    IF Field(hi).t # "null" THEN Field(hi).n
    ELSE IF Field(lo).t # "null" THEN Field(lo).n ELSE 0

\* First alias that is neither null nor zero, zero when there is none.
FirstNonZero(hi, lo) ==
    IF Field(hi).t # "null" /\ Field(hi).n # 0 THEN Field(hi).n
    ELSE IF Field(lo).t # "null" /\ Field(lo).n # 0 THEN Field(lo).n ELSE 0

LevelPrice(b) == IF "price" \in DOMAIN b THEN b["price"] ELSE Num(0)
LevelQuantity(b) ==
    IF "qtty" \in DOMAIN b /\ b["qtty"] \notin {Null, Num(0)} THEN b["qtty"]
    ELSE IF "quantity" \in DOMAIN b /\ b["quantity"] \notin {Null, Num(0)}
    THEN b["quantity"]
    ELSE Num(0)

Retained(b) ==
    /\ LevelPrice(b).t = "num" /\ LevelPrice(b).n > 0
    /\ LevelQuantity(b).t = "num" /\ LevelQuantity(b).n > 0

\* The array's retained levels, in the array's order.
RetainedLevels(raw) ==
    LET kept == SelectSeq(raw, Retained) IN
    [i \in 1..Len(kept) |->
        [price |-> LevelPrice(kept[i]).n, quantity |-> LevelQuantity(kept[i]).n]]

BookTick == normalized /\ onFeed = "topprice"

C13_HeadersFollowCredential ==
    verdict.evaluated =>
       \A b \in BOOLEAN :
          LET h == verdict.headers[b] IN
          /\ h.content_type = "application/json"
          /\ h.authorization # NoToken <=> cred # <<>>
          /\ cred # <<>> => h.authorization = cred[1].jwt_token
          /\ h.trading # NoToken <=>
                (b /\ cred # <<>> /\ cred[1].trading_token # NoToken)
          /\ h.trading # NoToken => h.trading = cred[1].trading_token

\* A credential with a secondary token: the header carries it when asked for
\* and is absent when not.
C13_Witness ==
    /\ verdict.evaluated
    /\ cred # <<>>
    /\ cred[1].trading_token = 2
    /\ verdict.headers[TRUE].trading = 2
    /\ verdict.headers[FALSE].trading = NoToken
    /\ verdict.headers[FALSE].authorization = 1

\* C14: for every credential and time, is_jwt_expired is true when the
\* primary expiry is in the past and false when it is in the future;
\* is_trading_token_expired is true when the secondary token or its expiry is
\* absent or the expiry is in the past, and false exactly when both are
\* present and the expiry is in the future.
C14_ExpiryPredicates ==
    (verdict.evaluated /\ cred # <<>>) =>
       LET t == cred[1]
           jwt_expired == verdict.is_jwt_expired[1]
           trading_expired == verdict.is_trading_token_expired[1]
           present == t.trading_token # NoToken /\ t.trading_token_expires_at # NoTime
       IN
       /\ t.jwt_expires_at < at => jwt_expired
       /\ t.jwt_expires_at > at => ~jwt_expired
       /\ ~present => trading_expired
       /\ (present /\ t.trading_token_expires_at < at) => trading_expired
       /\ (present /\ t.trading_token_expires_at > at) => ~trading_expired
       /\ ~trading_expired => (present /\ t.trading_token_expires_at > at)

\* The primary token has expired while the secondary token is still valid.
C14_Witness ==
    /\ verdict.evaluated
    /\ cred # <<>>
    /\ cred[1].jwt_expires_at < at
    /\ cred[1].trading_token # NoToken
    /\ cred[1].trading_token_expires_at > at
    /\ verdict.is_jwt_expired = <<TRUE>>
    /\ verdict.is_trading_token_expired = <<FALSE>>


(***************************************************************************)
(* Further claims about the request domain, checked under SpecRequest.     *)
(***************************************************************************)
InRequest(c) == call[c].op \in {"request", "submit"}

\* Every response of the call so far was a 401 and every login it forced
\* that has been answered succeeded.
Only401(c) ==
    /\ InRequest(c)
    /\ call[c].resp # <<>>
    /\ \A i \in 1..Len(call[c].resp) : call[c].resp[i] = "401"
    /\ \A i \in 1..Len(call[c].relogged) : call[c].relogged[i] = "ok"

\* C15: against an endpoint that answers 401 every time, each 401 forces one
\* login at once and the retry goes out with the headers of the new token and
\* with no back-off sleep; each 401 uses up one attempt, so the call sends
\* exactly three requests, forces at most three logins and then fails with
\* the request error.
C15_Always401Bounded ==
    \A c \in App :
       Only401(c) =>
          /\ Len(call[c].sent) <= 3
          /\ Len(call[c].relogins) <= 3
          /\ Len(call[c].relogins) = Len(call[c].resp)
          /\ call[c].sleeps = <<>>
          /\ call[c].pc # "backoff"
          /\ \A i \in 2..Len(call[c].sent) :
                call[c].sent[i].authorization = call[c].relogins[i - 1]
          /\ call[c].pc = "done" =>
                /\ call[c].result = "RequestFailed"
                /\ Len(call[c].sent) = 3
                /\ Len(call[c].relogins) = 3

\* Three requests were answered 401, three logins were forced, the call failed.
C15_Witness ==
    /\ Only401("app")
    /\ call["app"].pc = "done"
    /\ call["app"].result = "RequestFailed"
    /\ call["app"].resp = <<"401", "401", "401">>
    /\ Len(call["app"].relogins) = 3

\* The status or error text of a response.
ErrorText(status) ==
    CASE status = "401" -> "HTTP 401"
      [] status = "500" -> "HTTP 500"
      [] OTHER -> "ClientError"

\* C16 as stated: when the call fails after its attempts are used up, the
\* error it raises carries the status or error text seen on the last attempt,
\* whatever mix of 401s, other statuses and transport errors the attempts saw.
C16_ErrorCarriesLastAttempt ==
    \A c \in App :
       (/\ InRequest(c)
        /\ call[c].pc = "done"
        /\ call[c].result = "RequestFailed"
        /\ \A i \in 1..Len(call[c].relogged) : call[c].relogged[i] = "ok")
       => call[c].last_error = ErrorText(call[c].resp[Len(call[c].resp)])

\* C17: a trading operation begun while no valid secondary token is held
\* sends no request to the order endpoint.  _submit_order without can_trade
\* ends at once with the order-rejected event and sends nothing at all; a
\* trading call of the HTTP client, with no code provider configured, sends
\* neither the order request nor a one-time-code exchange and raises.
C17_NoOrderWithoutTradingToken ==
    \A c \in App :
       /\ (call[c].op = "submit" /\ ~call[c].could_trade) =>
             /\ call[c].pc = "done"
             /\ call[c].event = "order_rejected"
             /\ call[c].sent = <<>>
             /\ call[c].loginTok = NoToken
             /\ call[c].otpTok = NoToken
       /\ (/\ call[c].op = "request" /\ call[c].need_tt
           /\ ~call[c].could_trade /\ ~otp_callback) =>
             /\ call[c].sent = <<>>
             /\ call[c].otpTok = NoToken
             /\ call[c].pc \in {"login", "done"}
             /\ call[c].pc = "done" =>
                   call[c].result \in {"NotConnected", "LoginFailed",
                                       "ClientError", "NoOtp"}

\* Connected, with no secondary token and no code provider: the trading call
\* raised for want of a one-time code and sent nothing.
C17_Witness ==
    /\ ~otp_callback
    /\ is_authenticated(tokens, now)
    /\ call["app"].op = "request"
    /\ call["app"].need_tt
    /\ ~call["app"].could_trade
    /\ call["app"].pc = "done"
    /\ call["app"].result = "NoOtp"
    /\ call["app"].sent = <<>>

\* The step in which caller c calls get_trading_token.
CallsGetTradingToken(c) == call[c].pc = "idle" /\ call'[c].op = "get_tt"

\* C18 as stated: get_trading_token called while the primary token is absent
\* or expired first logs in.
C18_ExchangeLogsInFirst ==
    [][\A c \in App :
          (CallsGetTradingToken(c) /\ authSession /\ ~is_authenticated(tokens, now))
          => call'[c].pc = "login"]_vars

\* C18, amended: get_trading_token called while the primary token is absent
\* or expired raises the not-authenticated error at once; it performs no
\* login, sends no one-time-code exchange and leaves the credential as it
\* was.  It sends the exchange only when a valid primary token is held, with
\* that token as bearer.
C18_ExchangeRequiresValidPrimary ==
    [][\A c \in App :
          CallsGetTradingToken(c) =>
             /\ ~is_authenticated(tokens, now) =>
                   /\ call'[c].pc = "done"
                   /\ call'[c].result = "NotAuthenticated"
                   /\ loginsSent' = loginsSent
                   /\ otpsSent' = otpsSent
                   /\ tokens' = tokens
             /\ call'[c].pc = "otp" =>
                   /\ is_authenticated(tokens, now)
                   /\ otpsSent' = otpsSent + 1
                   /\ call'[c].bearer = tokens[1].jwt_token]_vars

\* get_trading_token was called with a code on an expired primary token and
\* raised.
C18_Witness ==
    /\ call["app"].op = "get_tt"
    /\ call["app"].otp_given
    /\ call["app"].pc = "done"
    /\ call["app"].result = "NotAuthenticated"
    /\ authSession
    /\ tokens # <<>>
    /\ is_jwt_expired(tokens[1], now)

\* C19: get_trading_token called with no code and with no code provider
\* configured raises, sends no one-time-code exchange (and no login) and
\* leaves the credential as it was; no exchange is ever sent without a code
\* or a provider.
C19_NoCodeNoExchange ==
    [][/\ \A c \in App :
             (CallsGetTradingToken(c) /\ ~call'[c].otp_given /\ ~otp_callback) =>
                /\ call'[c].pc = "done"
                /\ call'[c].result \in {"NoOtp", "NotAuthenticated"}
                /\ otpsSent' = otpsSent
                /\ loginsSent' = loginsSent
                /\ tokens' = tokens
       /\ otpsSent' # otpsSent =>
             \E c \in App :
                /\ call'[c].pc = "otp"
                /\ call'[c].otp_given \/ otp_callback]_vars

\* Holding a valid primary token, get_trading_token() found neither a code
\* nor a provider.
C19_Witness ==
    /\ ~otp_callback
    /\ is_authenticated(tokens, now)
    /\ call["app"].op = "get_tt"
    /\ ~call["app"].otp_given
    /\ call["app"].pc = "done"
    /\ call["app"].result = "NoOtp"
    /\ otpsSent = 0

\* C20: a login or a one-time-code exchange answered with a non-200 status or
\* with a body lacking the token raises the auth error and leaves primary
\* token, primary expiry, secondary token and secondary expiry as they were.
C20_RejectedExchangeKeepsCredential ==
    [][\A c \in App :
          /\ (call[c].pc = "login" /\ call'[c].posted = "rejected") =>
                /\ call'[c].pc = "done"
                /\ call'[c].result = "LoginFailed"
                /\ tokens' = tokens
          /\ (call[c].pc = "otp" /\ call'[c].posted = "rejected") =>
                /\ call'[c].pc = "done"
                /\ call'[c].result = "OtpFailed"
                /\ tokens' = tokens]_vars

\* A credential holding both tokens has survived a rejected login.
C20_Witness ==
    /\ call["app"].posted = "rejected"
    /\ call["app"].result = "LoginFailed"
    /\ tokens # <<>>
    /\ tokens[1].trading_token # NoToken


\* C21 as stated: a login or a one-time-code exchange that execute triggered
\* and that fails, by rejection or by a network failure, ends the call at
\* once with the auth error: no further request and no back-off sleep.
C21_AuthFailureEndsRequest ==
    [][\A c \in App :
          (/\ InRequest(c)
           /\ call[c].pc \in {"login", "otp"}
           /\ call'[c].posted \in {"rejected", "neterr"})
          => /\ call'[c].pc = "done"
             /\ call'[c].result \in {"LoginFailed", "OtpFailed", "ClientError"}
             /\ call'[c].sent = call[c].sent
             /\ call'[c].sleeps = call[c].sleeps]_vars

\* The step in which the response `status` of the attempt in flight arrives.
Answered(c, status) ==
    /\ call[c].pc = "http"
    /\ call'[c].resp = Append(call[c].resp, status)

\* C27: an attempt i that ends with a non-200, non-401 status or a transport
\* exception is followed by a sleep of RETRY_DELAY_SECONDS * 2^i exactly when
\* i < 2, and the next attempt goes out only when that sleep is over; after
\* the last attempt the call fails without sleeping.  No sleep precedes the
\* first attempt, and a call never sleeps more than twice.
C27_BackoffDoubles ==
    [][\A c \in App :
          /\ \A status \in {"500", "neterr"} :
                Answered(c, status) =>
                   /\ call'[c].sent = call[c].sent
                   /\ IF call[c].attempt < MAX_RETRIES - 1
                      THEN /\ call'[c].pc = "backoff"
                           /\ call'[c].sleeps =
                                 Append(call[c].sleeps,
                                        RETRY_DELAY_SECONDS * 2 ^ call[c].attempt)
                      ELSE /\ call'[c].pc = "done"
                           /\ call'[c].result = "RequestFailed"
                           /\ call'[c].sleeps = call[c].sleeps
          /\ call[c].pc = "backoff" =>
                /\ call[c].sent # <<>>
                /\ call'[c].pc = "http"
                /\ call'[c].attempt = call[c].attempt + 1
                /\ Len(call'[c].sent) = Len(call[c].sent) + 1
          /\ Len(call[c].sleeps) <= MAX_RETRIES - 1
          /\ (\A i \in 1..Len(call[c].resp) : call[c].resp[i] \in {"500", "neterr"})
                => \A i \in 1..Len(call[c].sleeps) :
                      call[c].sleeps[i] = RETRY_DELAY_SECONDS * 2 ^ (i - 1)]_vars

\* Three attempts failed: the call slept 1 s and 2 s and then raised.
C27_Witness ==
    /\ call["app"].op = "request"
    /\ call["app"].pc = "done"
    /\ call["app"].result = "RequestFailed"
    /\ call["app"].resp = <<"500", "neterr", "500">>
    /\ call["app"].sleeps = <<1, 2>>

\* place_order, lines 320-337: what the i-th request of an order placement
\* carries.  The body is built once, before _request is entered.
OrderPayloadKeys ==
    {"symbol", "side", "orderType", "price", "quantity", "loanPackageId",
     "accountNo"}

OrderRequest(rec, i) ==
    [method |-> "POST", json |-> OrderPayloadKeys, headers |-> rec.sent[i]]

\* C28: an order placement goes through the same retry loop as any request:
\* after an attempt that ends in a transport error or a non-200, non-401
\* status the same POST is sent again, so that one placement sends the order
\* up to three times, the copies carrying nothing that tells them apart.
C28_OrderPostIsRetried ==
    \A c \in App :
       call[c].op = "submit" =>
          /\ Len(call[c].sent) <= MAX_RETRIES
          /\ \A i \in 1..Len(call[c].resp) :
                (call[c].resp[i] \in {"500", "neterr"} /\ i < MAX_RETRIES) =>
                   \/ call[c].pc = "backoff" /\ i = Len(call[c].sent)
                   \/ /\ i < Len(call[c].sent)
                      /\ OrderRequest(call[c], i + 1) = OrderRequest(call[c], i)

\* One order placement has sent the same POST three times.
C28_Witness ==
    /\ call["app"].op = "submit"
    /\ call["app"].resp = <<"neterr", "neterr">>
    /\ Len(call["app"].sent) = 3
    /\ OrderRequest(call["app"], 1) = OrderRequest(call["app"], 3)
    /\ call["app"].sent[1].trading # NoToken


\* The step in which caller c enters _request for a trading call, and with
\* it ensure_trading_token.
CallsEnsureTradingToken(c) ==
    /\ call[c].pc = "idle"
    /\ call'[c].op = "request"
    /\ call'[c].need_tt
    /\ httpSession

\* The step in which the login that ensure_authenticated started for such a
\* call succeeds.
EnsuredPrimary(c) ==
    /\ call[c].op = "request"
    /\ call[c].need_tt
    /\ call[c].pc = "login"
    /\ call[c].phase = "ensure"
    /\ call'[c].posted = "ok"

\* What ensure_trading_token does once a valid primary token is held:
\* nothing when the secondary token is valid, the exchange otherwise (which
\* raises at once when there is no code provider).
ThenExchangesIfNeeded(c) ==
    IF has_trading_token(tokens', now)
    THEN /\ call'[c].pc = "http"
         /\ otpsSent' = otpsSent
         /\ call'[c].otpTok = NoToken
    ELSE IF otp_callback
    THEN /\ call'[c].pc = "otp"
         /\ otpsSent' = otpsSent + 1
         /\ call'[c].bearer = jwt_token(tokens')
    ELSE /\ call'[c].pc = "done"
         /\ call'[c].result = "NoOtp"
         /\ otpsSent' = otpsSent

\* C26: ensure_trading_token first makes sure of the primary token (a login
\* exactly when it is absent or expired) and only then, exactly when the
\* secondary token is absent or expired, performs the exchange; holding an
\* unexpired primary and an unexpired secondary token it sends nothing and
\* leaves the credential as it was.
C26_EnsureSecondaryOrder ==
    [][\A c \in App :
          /\ CallsEnsureTradingToken(c) =>
                IF is_authenticated(tokens, now)
                THEN /\ loginsSent' = loginsSent
                     /\ call'[c].loginTok = NoToken
                     /\ tokens' = tokens
                     /\ ThenExchangesIfNeeded(c)
                ELSE /\ call'[c].pc = "login"
                     /\ loginsSent' = loginsSent + 1
                     /\ otpsSent' = otpsSent
                     /\ tokens' = tokens
          /\ EnsuredPrimary(c) =>
                /\ is_authenticated(tokens', now)
                /\ ThenExchangesIfNeeded(c)]_vars

\* Holding both tokens unexpired, a trading call went straight to its first
\* request: no login and no exchange was sent for it.
C26_Witness ==
    /\ call["app"].op = "request"
    /\ call["app"].need_tt
    /\ call["app"].could_trade
    /\ call["app"].pc = "http"
    /\ call["app"].loginTok = NoToken
    /\ call["app"].otpTok = NoToken
    /\ Len(call["app"].sent) = 1
    /\ call["app"].sent[1].trading = trading_token(tokens)
    /\ loginsSent = 1
    /\ otpsSent = 1


(***************************************************************************)
(* Claims about the session's life and the refresh loop, checked under     *)
(* SpecSession.                                                            *)
(***************************************************************************)
CancelPoints == {Cancelled(a) : a \in RefreshAwaits}

\* The refresh loop sends a login request in this step.
RefreshStartsLogin == refresh # "login" /\ refresh' = "login"

\* C22: disconnect cancels the refresh task and waits until it has ended
\* before it closes the session and discards the credential.  From the
\* moment disconnect begins the refresh loop starts no login, at whichever
\* await the cancellation finds it (before its first run, asleep, awaiting
\* its login, in its error back-off); a login it had in flight is abandoned
\* and writes no credential.
C22_DisconnectStopsRefreshFirst ==
    [][/\ \A c \in App :
             /\ (call[c].pc = "idle" /\ call'[c].op = "disconnect") =>
                   IF refresh \in RefreshAwaits
                   THEN /\ refresh' = Cancelled(refresh)
                        /\ call'[c].pc = "await_refresh"
                   ELSE /\ refresh = "off"
                        /\ refresh' = "off"
             /\ call[c].pc = "await_refresh" =>
                   /\ refresh \in CancelPoints \cup {"ended"}
                   /\ authSession' = authSession
                   /\ tokens' = tokens
                   /\ call'[c].pc = "closing" => refresh = "ended"
             /\ call[c].pc = "closing" => refresh = "off"
             /\ call[c].op = "disconnect" =>
                   /\ ~RefreshStartsLogin
                   /\ loginsSent' = loginsSent
       /\ (authSession /\ ~authSession') => refresh = "off" /\ refresh' = "off"
       /\ refresh = "cancel_login" => tokens' = tokens /\ refresh' # "login"]_vars

\* disconnect has cancelled the refresh task while its login was in flight and
\* is waiting for the task; session and credential are still in place.
C22_Witness ==
    /\ call["app"].op = "disconnect"
    /\ call["app"].pc = "await_refresh"
    /\ refresh = "cancel_login"
    /\ authSession
    /\ tokens # <<>>

\* The refresh loop's login fails in this step.
RefreshLoginFails ==
    /\ refresh = "login"
    /\ refresh' # "login"
    /\ refresh' \notin CancelPoints
    /\ jwt_token(tokens') # refreshTok

\* C23: a failed login of the refresh loop is logged and the loop goes on: it
\* sleeps and takes up its check again; no caller sees the failure and the
\* credential stays as it was.  The task ends only by the cancellation that
\* disconnect sends it.
C23_RefreshFailureContained ==
    [][/\ RefreshLoginFails =>
             /\ refresh' = "sleep30"
             /\ refreshErrors' = refreshErrors + 1
             /\ call' = call
             /\ tokens' = tokens
       /\ refresh = "sleep30" =>
             refresh' \in {"sleep30", "sleep60", "login", "cancel_sleep30"}
       /\ (refresh # "ended" /\ refresh' = "ended") => refresh \in CancelPoints
       /\ (refresh # "off" /\ refresh' = "off") => refresh = "ended"
       /\ (refresh \notin CancelPoints /\ refresh' \in CancelPoints) =>
             \E c \in App : call[c].pc = "idle" /\ call'[c].op = "disconnect"]_vars

\* The loop's first login failed and was logged; on a later wake-up it logged
\* in again, with success.
C23_Witness ==
    /\ refreshErrors = 1
    /\ refresh = "sleep60"
    /\ refreshTok = 3
    /\ jwt_token(tokens) = 3
    /\ call["app"].op = "none"

\* is_authenticated and has_trading_token are false, both token accessors
\* return None and get_auth_headers carries neither token.
NoCredential ==
    /\ ~is_authenticated(tokens, now)
    /\ ~has_trading_token(tokens, now)
    /\ jwt_token(tokens) = NoToken
    /\ trading_token(tokens) = NoToken
    /\ \A b \in BOOLEAN :
          /\ get_auth_headers(tokens, b).authorization = NoToken
          /\ get_auth_headers(tokens, b).trading = NoToken

\* A login succeeds in this step.
LoginSucceeds ==
    \/ \E c \in App : call[c].pc = "login" /\ call'[c].posted = "ok"
    \/ refresh = "login" /\ refresh' = "sleep60"

\* C24: there is no credential on a new session, none when disconnect has
\* returned and none while the session is closed; where there is none, only
\* a login that succeeds brings one.
C24_CredentialOnlyWhileConnected ==
    [][/\ loginsSent = 0 => NoCredential
       /\ ~authSession => NoCredential
       /\ \A c \in App :
             (call[c].pc = "closing" /\ call'[c].pc = "done") =>
                 /\ NoCredential'
                 /\ ~authSession'
       /\ (NoCredential /\ ~NoCredential') => LoginSucceeds]_vars

\* disconnect has returned on a session that had logged in and exchanged a
\* code: nothing of the credential is left.
C24_Witness ==
    /\ call["app"].op = "disconnect"
    /\ call["app"].pc = "done"
    /\ NoCredential
    /\ loginsSent = 1
    /\ otpsSent = 1

\* The login requests in flight that ensure_authenticated, the 401 branch of
\* _request or the refresh loop sent.
LoginsInFlight ==
    Cardinality({c \in Callers : /\ call[c].pc = "login"
                                 /\ call[c].phase \in {"ensure", "relogin"}})
       + (IF refresh = "login" THEN 1 ELSE 0)

\* C25 as stated: at most one login request is in flight at any time, whether
\* the refresh loop or a caller started it, and a login that finishes later
\* never replaces the token of a login that was sent after it.
C25_LoginsSerialized ==
    [][/\ LoginsInFlight <= 1
       /\ (tokens # <<>> /\ tokens' # <<>>) =>
             tokens'[1].jwt_token >= tokens[1].jwt_token]_vars

\* The remaining lifetime of the primary token.
time_to_jwt_expiry == tokens[1].jwt_expires_at - now

NeedsRefresh ==
    tokens # <<>> /\ time_to_jwt_expiry < TOKEN_REFRESH_BUFFER_SECONDS

\* C29: on a wake-up the refresh loop sends a login exactly when a credential
\* exists whose primary token has less than TOKEN_REFRESH_BUFFER_SECONDS left;
\* otherwise it sends nothing and sleeps again.  The wake-up itself leaves the
\* credential alone: the credential changes only when a login or an exchange
\* is answered or disconnect discards it.
C29_RefreshOnlyInsideBuffer ==
    [][/\ RefreshStartsLogin =>
             /\ refresh \in {"start", "sleep60", "sleep30"}
             /\ NeedsRefresh
             /\ loginsSent' = loginsSent + 1
             /\ tokens' = tokens
       /\ (/\ refresh \in {"start", "sleep60", "sleep30"}
           /\ refresh' # refresh
           /\ refresh' \notin CancelPoints) =>
             IF NeedsRefresh
             THEN refresh' = "login"
             ELSE /\ refresh' = "sleep60"
                  /\ loginsSent' = loginsSent
                  /\ tokens' = tokens
       /\ tokens' # tokens =>
             \/ refresh = "login" /\ refresh' = "sleep60"
             \/ \E c \in App : call[c].pc \in {"login", "otp", "closing"}]_vars

\* The loop woke one nap inside the buffer, the token still valid, and sent a
\* login.
C29_Witness ==
    /\ refresh = "login"
    /\ tokens # <<>>
    /\ time_to_jwt_expiry = TOKEN_REFRESH_BUFFER_SECONDS - 60
    /\ refreshTok = loginsSent


(***************************************************************************)
(* A further claim about the streaming domain, checked under SpecWs.       *)
(***************************************************************************)
\* The methods that run disconnect(): disconnect itself, connect on a manager
\* that holds a transport, update_token on a connected manager.
RunsDisconnect == {"disconnect", "connect", "update_token"}

\* C30: is_connected becomes true only by a successful connect
\* acknowledgement (rc = 0) on a transport that connect() created, and false
\* again only by a transport disconnect event or by disconnect(); connect()
\* leaves it false, and no other operation changes it.  An acknowledgement
\* with rc # 0 leaves it false, sends no subscribe call and hands no
\* connected callback to the event loop.
C30_ConnectedOnlyBetweenAckAndDisconnect ==
    [][/\ (~is_connected /\ is_connected') =>
             /\ client
             /\ lastOp'.op = "on_connect"
             /\ lastOp'.json = "ok"
             /\ notified' = "on_connected"
       /\ (is_connected /\ ~is_connected') =>
             lastOp'.op \in RunsDisconnect \cup {"on_disconnect"}
       /\ is_connected => client
       /\ lastOp'.op \in RunsDisconnect \cup {"on_disconnect"} => ~is_connected'
       /\ lastOp'.op = "disconnect" => ~client'
       /\ lastOp'.op = "on_connect" =>
             IF lastOp'.json = "ok"
             THEN is_connected'
             ELSE /\ ~is_connected'
                  /\ calls' = NoCalls
                  /\ sentOnConn' = sentOnConn
                  /\ notified' = "none"]_vars

\* With subscriptions waiting, the transport reported a refused connection:
\* the manager is not connected and has subscribed to nothing.
C30_Witness ==
    /\ lastOp.op = "on_connect"
    /\ lastOp.json = "refused"
    /\ client
    /\ ~is_connected
    /\ subscribed_symbols # {}
    /\ calls = NoCalls
    /\ notified = "none"


\* C37 as stated: every request of a trading call carries the secondary-token
\* header, with the secondary token held at the time, the requests sent
\* after a login forced by a 401 included.
C37_TradingHeaderOnEveryAttempt ==
    \A c \in App :
       (InRequest(c) /\ call[c].need_tt) =>
          \A i \in 1..Len(call[c].sent) : call[c].sent[i].trading # NoToken


\* How a call of _request can end: with the parsed body, or with an error.
RequestResults ==
    {"json", "empty", "RequestFailed", "NotConnected", "LoginFailed",
     "ClientError", "NoOtp", "OtpFailed", "NoTradingToken"}

\* C39: a call of _request never sends more than MAX_RETRIES requests nor
\* forces more than MAX_RETRIES logins, and, every request, login and
\* exchange being answered or failing in the end, it ends: it returns the
\* parsed body or raises.
C39_ExecuteTerminates ==
    /\ [](\A c \in App :
             InRequest(c) =>
                /\ Len(call[c].sent) <= MAX_RETRIES
                /\ Len(call[c].relogins) <= MAX_RETRIES
                /\ call[c].attempt < MAX_RETRIES
                /\ call[c].pc = "done" => call[c].result \in RequestResults)
    /\ \A c \in App :
          InRequest(c) ~> (InRequest(c) /\ call[c].pc = "done")

\* A call that saw a transport error, a 401 and a 500 has ended with the
\* request error after three requests.
C39_Witness ==
    /\ call["app"].op = "request"
    /\ call["app"].pc = "done"
    /\ call["app"].result = "RequestFailed"
    /\ call["app"].resp = <<"neterr", "401", "500">>
    /\ call["app"].relogged = <<"ok">>
    /\ Len(call["app"].sent) = MAX_RETRIES


\* C38: while the refresh loop runs and none of its logins has failed, the
\* primary token is replaced before it expires: is_authenticated holds at
\* every moment after the connect that started the loop.
C38_RefreshKeepsAuthenticated ==
    (refresh \in RefreshAwaits /\ refreshErrors = 0) =>
        is_authenticated(tokens, now)

\* The first token's expiry has passed; the loop replaced the token in time
\* and sleeps, still authenticated.
C38_Witness ==
    /\ refresh = "sleep60"
    /\ refreshErrors = 0
    /\ now > TOKEN_EXPIRY_SECONDS
    /\ refreshTok = 2
    /\ jwt_token(tokens) = 2
    /\ is_authenticated(tokens, now)


\* C31: unsubscribe(symbol) takes both records of the symbol out of the
\* desired set, leaves the records of other symbols alone and issues the two
\* transport unsubscribe calls exactly when the manager is connected.  A
\* connect acknowledgement subscribes only to the topics of records in the
\* set, and a record of a symbol comes into the set only by subscribe(symbol):
\* so no later connection subscribes to the symbol again unless the
\* application does.
C31_UnsubscribeForgetsSymbol ==
    [][/\ \A symbol \in Symbols :
             /\ (lastOp'.op = "unsubscribe" /\ lastOp'.symbol = symbol) =>
                   /\ subscribed_symbols' = subscribed_symbols \ SymbolItems(symbol)
                   /\ calls'.sub = NoCalls.sub
                   /\ \A t \in AllTopics :
                         calls'.unsub[t] =
                            IF is_connected /\ t \in SymbolTopics(symbol)
                            THEN 1 ELSE 0
             /\ (/\ SymbolItems(symbol) \cap subscribed_symbols = {}
                 /\ SymbolItems(symbol) \cap subscribed_symbols' # {}) =>
                   /\ lastOp'.op = "subscribe"
                   /\ lastOp'.symbol = symbol
       /\ lastOp'.op = "on_connect" =>
             \A t \in AllTopics :
                calls'.sub[t] > 0 =>
                   \E item \in subscribed_symbols : ItemTopic(item) = t]_vars

\* Of two symbols subscribed, one was unsubscribed while connected.
C31_Witness ==
    /\ lastOp.op = "unsubscribe"
    /\ lastOp.symbol = <<"ABC">>
    /\ is_connected
    /\ \A t \in SymbolTopics(<<"ABC">>) : calls.unsub[t] = 1
    /\ subscribed_symbols = SymbolItems(<<"X", ":", "Y">>)
    /\ SymbolTopics(<<"X", ":", "Y">>) \subseteq sentOnConn

\* C33 as stated: disconnect() stops the transport's loop before it clears
\* the flag and the subscription set, and once it has returned no tick
\* reaches the tick callback, the ticks handed to the event loop before it
\* included.
C33_NoTickAfterDisconnect ==
    [][(~client /\ ~client') => delivered' = delivered]_vars

\* C32: whatever the interleaving of subscribe(symbol) with the connect
\* acknowledgement handler, once both have finished and the manager is
\* connected, every record of the subscription set has had its subscribe
\* call sent on the current connection.
C32_NoRecordLeftUnsent ==
    (app.pc = "idle" /\ ack.pc = "idle" /\ is_connected) =>
        \A item \in subscribed_symbols : ItemTopic(item) \in sentOnConn

\* C34: in the data client the streaming manager holds both records of a
\* symbol exactly when its instrument is in the quote-tick or the trade-tick
\* set, and neither record otherwise; an unsubscribe of one kind while the
\* other kind is still subscribed leaves the manager untouched (no transport
\* call), and an unsubscribe that leaves no kind subscribed sends the
\* transport unsubscribe for both topics when the manager is connected.
UnsubscribesKind(instrument_id) ==
    /\ dataOp'.instrument_id = instrument_id
    /\ dataOp'.op \in {"unsubscribe_quote_ticks", "unsubscribe_trade_ticks"}

OtherKind(instrument_id) ==
    IF dataOp'.op = "unsubscribe_quote_ticks"
    THEN subscribed_trade_ticks ELSE subscribed_quote_ticks

C34_ManagerHoldsSubscribedInstruments ==
    /\ [](\A instrument_id \in Instruments :
            LET items == SymbolItems(instrument_id_to_symbol(instrument_id)) IN
            IF instrument_id \in subscribed_quote_ticks \cup subscribed_trade_ticks
            THEN items \subseteq subscribed_symbols
            ELSE items \cap subscribed_symbols = {})
    /\ [][\A instrument_id \in Instruments :
            UnsubscribesKind(instrument_id) =>
               IF instrument_id \in OtherKind(instrument_id)
               THEN UNCHANGED wsVars
               ELSE (ws_client /\ is_connected) =>
                       \A t \in AllTopics :
                          calls'.unsub[t] =
                             IF t \in SymbolTopics(instrument_id_to_symbol(instrument_id))
                             THEN 1 ELSE 0]_vars

\* The quote-tick subscription of ABC has been dropped while its trade-tick
\* subscription stays, on a connected manager.
C34_Witness ==
    /\ dataOp = DataOp("unsubscribe_quote_ticks", [symbol |-> <<"ABC">>, venue |-> VENUE])
    /\ [symbol |-> <<"ABC">>, venue |-> VENUE] \in subscribed_trade_ticks
    /\ [symbol |-> <<"ABC">>, venue |-> VENUE] \notin subscribed_quote_ticks
    /\ ws_client /\ is_connected
    /\ SymbolItems(<<"ABC">>) \subseteq subscribed_symbols
    /\ lastOp.op = "subscribe"

\* C35: after every add_price(p, t) of a sequence with non-decreasing
\* timestamps, the deque holds exactly the observations whose timestamp is
\* at least t - window_seconds (the one at the cutoff included), the channel
\* is the greatest and the least of their prices, and the price just added
\* lies between them.
InWindow ==
    LET t == observed[Len(observed)][1] IN
    {i \in 1..Len(observed) : observed[i][1] >= t - window_seconds}

C35_ChannelIsWindowExtremes ==
    observed # <<>> =>
        LET p == observed[Len(observed)][2]
            inside == {observed[i][2] : i \in InWindow} IN
        /\ Len(prices) = Cardinality(InWindow)
        /\ \A k \in 1..Len(prices) :
              prices[k] = observed[Len(observed) - Len(prices) + k]
        /\ high \in inside /\ \A q \in inside : q <= high
        /\ low \in inside /\ \A q \in inside : q >= low
        /\ high >= p /\ p >= low

\* An observation exactly at the cutoff is kept while an older one is gone.
C35_Witness ==
    /\ Len(observed) = 3
    /\ window_seconds = 2
    /\ observed[1][1] = 0 /\ observed[2][1] = 1 /\ observed[3][1] = 3
    /\ observed[1][2] = 3 /\ observed[2][2] = 1 /\ observed[3][2] = 2
    /\ Len(prices) = 2 /\ high = 2 /\ low = 1

\* C36: a purchase signalled by the crisis-mode handler, executed while the
\* bot is in crisis mode, never leaves the position above the snapshot
\* initial_quantity taken at start.
C36_BuyBackWithinSnapshot ==
    [][(/\ botOp'.op = "place_order" /\ botOp'.side = "BUY"
        /\ botOp'.mode = "crisis" /\ in_crisis_mode')
          => quantity' <= initial_quantity]_vars
====
